---- MODULE Spec2Model ----
(***************************************************************************)
(* Model of the ledger-orchestration service (DamlService) of the lending  *)
(* backend: exact-amount holding allocation, USDC lock / transfer, native  *)
(* coin escrow locks, and the loan offer / active loan lifecycle.          *)
(*                                                                         *)
(* Every request handler is an async function; it is modelled as a process *)
(* in a request slot whose steps are the handler's awaited external calls  *)
(* (one ledger or escrow round trip per step, together with the local code *)
(* that follows it up to the next await).  The ledger and the escrow       *)
(* wallet are the environment: they answer each call atomically.           *)
(*                                                                         *)
(* Amounts are counted in ticks of 0.005 units, so that the 0.01 tolerance *)
(* of repayLoan is two ticks; parseFloat and toString are exact on the     *)
(* decimal strings of this range and an amount is modelled by its value.   *)
(* Dates are strings: a date is modelled by the characters of its day      *)
(* field (the "YYYY-MM-" prefix is shared), compared as JavaScript         *)
(* compares strings.                                                       *)
(***************************************************************************)
EXTENDS Integers, Sequences, FiniteSets, TLC

\* ------------------------------------------------------------------ bounds
MaxOps == 2
MaxAmount == 3
MaxHoldings == 2

\* --------------------------------------------------------------- constants
NULL == 0
UNDEFINED == -1
NoParty == "none"
adminPartyId == "admin"

\* The raw bearer token of the current user, which the JWT strategy attaches
\* to the user and the controllers forward; service tokens are numbered from 1.
rawToken == 9

\* The wallet of the service account, the subject of the service token.
ServiceAccount == "validator"
Parties == {"alice", "bob"}
ReqIds == {1, 2}
RepayToleranceTicks == 2

\* Day fields of date strings.  D02..D11 are zero padded ("...-02"); U5 is
\* the unpadded "...-5", which the DTO of claimDefault also accepts.
D02 == <<0, 2>>
D10 == <<1, 0>>
D11 == <<1, 1>>
U5 == <<5>>

VARIABLES
    holdings,     \* active AssetHolding contracts: set of [cid, owner, amount]
    locked,       \* active LockedAssetHolding contracts: [cid, owner, amount, releaseTo]
    archived,     \* archived ledger contracts (history)
    offers,       \* active LoanOfferHybrid contracts
    loans,        \* active ActiveLoanHybrid contracts
    loanState,    \* history: loan cid -> "Active" | "Repaid" | "Defaulted"
    offerLoans,   \* history: offer cid -> set of loan cids created from it
    escrow,       \* escrow transfer offers: set of [id, sender, receiver, amount, status]
    ccBalance,    \* per party, the initialAmount of each of its Amulet contracts
    nextId,       \* next contract id the ledger / escrow assigns
    req,          \* request slots
    started,      \* number of requests started so far
    tokenCache,   \* DamlService.tokenCache: audience -> NULL | [token, expiresAt]
    now,          \* Date.now(), in ticks of 60 s
    exchanges,    \* history: the token exchanges the OAuth server answered with success
    tok,          \* getAuth0Token calls in flight
    call          \* the read-path call in flight (balances, active contracts, explorer)

vars == <<holdings, locked, archived, offers, loans, loanState,
          offerLoans, escrow, ccBalance, nextId, req, started,
          tokenCache, now, exchanges, tok, call>>

ledgerVars == <<holdings, locked, archived, offers, loans, loanState, offerLoans>>

\* The token cache, the clock and the read-path calls: the lending handlers
\* are modelled with a valid ledger token at hand and leave them alone.
svcVars == <<tokenCache, now, exchanges, tok, call>>

\* The lending requests and the ledger and escrow state they act on.
lendingVars == <<ledgerVars, escrow, ccBalance, nextId, req, started>>

\* ----------------------------------------------------------------- helpers
RECURSIVE SumSeq(_)
SumSeq(s) == IF s = <<>> THEN 0 ELSE Head(s) + SumSeq(Tail(s))

\* All orders in which the ledger may return the contracts of a set.
Orders(S) ==
    {f \in [1..Cardinality(S) -> S] : \A i, j \in 1..Cardinality(S) : f[i] = f[j] => i = j}

\* JavaScript's < on strings: lexicographic on the characters, a proper
\* prefix is smaller.
RECURSIVE LexLess(_, _)
LexLess(a, b) ==
    IF b = <<>> THEN FALSE
    ELSE IF a = <<>> THEN TRUE
    ELSE IF Head(a) # Head(b) THEN Head(a) < Head(b)
    ELSE LexLess(Tail(a), Tail(b))

\* The day a date string denotes.
RECURSIVE DayOf(_)
DayOf(s) == IF s = <<>> THEN 0 ELSE 10 * DayOf(SubSeq(s, 1, Len(s) - 1)) + s[Len(s)]

IsIsoDate(s) == Len(s) = 2

\* ------------------------------------------------------------ request slots
\* The status and the body text of a non-success answer of the ledger; NoAnswer
\* where none was read.
NoAnswer == [status |-> 0, body |-> "none"]

FailedAnswers ==
    {[status |-> 400, body |-> "INVALID_ARGUMENT"], [status |-> 409, body |-> "CONTENTION"]}

Idle ==
    [op |-> "idle", pc |-> "idle", partyId |-> NoParty, amount |-> 0,
     releaseTo |-> NoParty, recipient |-> NoParty,
     offerType |-> "none", loanAmount |-> 0, collateralAmount |-> 0,
     maturityDate |-> <<>>, claimDate |-> <<>>, target |-> NULL,
     initiator |-> NoParty, usdcHoldings |-> <<>>, largeEnough |-> NULL, holdingCid |-> NULL,
     holdingAmount |-> 0, lockedCCCollateral |-> NULL, lockedUSDCPrincipal |-> NULL,
     acceptorUSDCCid |-> NULL, acceptorCCReference |-> NULL,
     loan |-> [cid |-> NULL], cmds |-> <<>>, outcome |-> "none", error |-> "none",
     need |-> 0, have |-> 0, cause |-> NoAnswer, ledgerResult |-> NULL, result |-> NULL,
     userToken |-> rawToken, token |-> UNDEFINED]

\* A ledger command or escrow request the handler sent, with the answer's status.
Cmd(api, choice, cid, actAs, arg, ok) ==
    [api |-> api, choice |-> choice, cid |-> cid, actAs |-> actAs, arg |-> arg, ok |-> ok,
     answer |-> NoAnswer, token |-> UNDEFINED]

Sent(s, c) == [s EXCEPT !.cmds = Append(@, c)]

Threw(s, kind) == [s EXCEPT !.pc = "done", !.outcome = "threw", !.error = kind]

Returned(s, value) == [s EXCEPT !.pc = "done", !.outcome = "returned", !.result = value]

\* Fault variant of SubmitFailed: the rejected exercise is caught and the
\* handler goes on to the step that follows it - the escrow step after the
\* repay or default exercise, the offer command after the Lock.
SubmitFailed_GoesOn(s, c, answer) ==
    LET t == Sent(s, [c EXCEPT !.ok = FALSE, !.answer = answer])
    IN  CASE c.choice = "RepayHybrid" -> [t EXCEPT !.pc = "unlock"]
          [] c.choice = "ClaimDefaultHybrid" -> [t EXCEPT !.pc = "claim"]
          [] c.choice = "Lock" /\ s.op = "createOffer" -> [t EXCEPT !.pc = "create"]
          [] c.choice = "Lock" /\ s.op = "acceptOffer" -> [t EXCEPT !.pc = "accept"]
          [] OTHER -> [Threw(t, "LedgerCommandError") EXCEPT !.cause = answer]

\* Fault variant of SubmitFailed: the non-success answer is passed on as the
\* result.
SubmitFailed_Returns(s, c, answer) ==
    [Returned(Sent(s, [c EXCEPT !.ok = FALSE, !.answer = answer]), NULL)
        EXCEPT !.ledgerResult = NULL]

\* submitCommand on a non-success answer: it throws an error whose message
\* carries the status and the body text.
SubmitFailed(s, c, answer) ==
    [Threw(Sent(s, [c EXCEPT !.ok = FALSE, !.answer = answer]), "LedgerCommandError")
        EXCEPT !.cause = answer]

\* JavaScript truthiness of a contract id read from a response, or of a token
\* ('' and undefined are falsy).
Truthy(v) == v # NULL /\ v # UNDEFINED

\* Fault variant of Bearer: the service token, whatever the caller forwarded.
Bearer_Service(s) == s.token

\* walletApiFetch: userToken || await this.getValidatorToken(), the token of
\* the Authorization header; s.token is what getValidatorToken returned.
Bearer(s) == IF Truthy(s.userToken) THEN s.userToken ELSE s.token

\* The escrow request c as walletApiFetch sends it for the call s.
WithBearer(s, c) == [c EXCEPT !.token = Bearer(s)]

\* The wallet the escrow service acts on: that of the token's subject, the
\* user's party for the user's token and the service account's otherwise.
WalletOf(s) == IF Bearer(s) = rawToken THEN s.partyId ELSE ServiceAccount

\* JSON.stringify drops a property whose value is undefined: the receiver
\* reads the field as absent, i.e. null.
JsonField(v) == IF v = UNDEFINED THEN NULL ELSE v

\* ------------------------------------------------- exact-amount allocation
\* Array.prototype.find: the first of the indices I of the elements that pass
\* the test, 0 if none does.
FirstIndex(I) == IF I = {} THEN 0 ELSE CHOOSE i \in I : \A j \in I : i <= j

\* Fault variant of ExactMatch: the amount string is compared with the number
\* without parseFloat, and === never holds.
ExactMatch_Never(hs, amount) == FirstIndex({})

ExactMatch(hs, amount) == FirstIndex({i \in DOMAIN hs : hs[i].amount = amount})

RepayExactMatch(hs, amount) ==
    FirstIndex({i \in DOMAIN hs :
                  (IF hs[i].amount >= amount THEN hs[i].amount - amount
                                             ELSE amount - hs[i].amount) < RepayToleranceTicks})

LargeEnough(hs, amount) == FirstIndex({i \in DOMAIN hs : hs[i].amount >= amount})

TotalAvailable(hs) == SumSeq([i \in DOMAIN hs |-> hs[i].amount])

\* The pc a handler continues at once it holds the holding to use.
UseHoldingPc(s) ==
    CASE s.op = "transferUSDC" -> "transfer"
      [] s.op = "repayLoan" -> "repay"
      [] OTHER -> "lock"

\* lockUSDC / transferUSDC after queryAssetHoldings answered hs.
AfterHoldingsQuery(s0, hs) ==
    LET s == [s0 EXCEPT !.usdcHoldings = hs]
        exact == IF s.op = "repayLoan" THEN RepayExactMatch(hs, s.amount)
                 ELSE ExactMatch(hs, s.amount)
        large == LargeEnough(hs, s.amount)
    IN  IF Len(hs) = 0 THEN Threw(s, "NoHoldings")
        ELSE IF exact # 0
             THEN [s EXCEPT !.pc = UseHoldingPc(s), !.holdingCid = hs[exact].cid,
                            !.holdingAmount = hs[exact].amount]
        ELSE IF large = 0
             THEN [Threw(s, "InsufficientBalance") EXCEPT
                       !.need = s.amount, !.have = TotalAvailable(hs)]
        ELSE [s EXCEPT !.pc = "split", !.largeEnough = hs[large].cid]

\* ------------------------------------------------------- ledger responses
\* A submit-and-wait answer as the handlers read it: the exercise result (a
\* tuple {_1,_2}, an array, a string, or absent) and the created events.
Response(kind, v, created) == [exerciseResult |-> [kind |-> kind, v |-> v], created |-> created]

\* Split returns (split amount, remainder); its first created event is the
\* split amount, the second the remainder.
SplitResponses(exact, rem) ==
    {Response("tuple", <<exact, rem>>, <<exact, rem>>),
     Response("array", <<exact, rem>>, <<exact, rem>>),
     Response("undefined", <<>>, <<exact, rem>>),
     Response("undefined", <<>>, <<>>)}

\* Lock returns the id of the LockedAssetHolding it creates.  The answer may
\* carry it as the exercise result, carry an empty or mistyped result, or
\* none, with or without the created event.
LockResponses(lockedCid) ==
    {Response("string", <<lockedCid>>, <<lockedCid>>),
     Response("string", <<NULL>>, <<lockedCid>>),
     Response("tuple", <<lockedCid, lockedCid>>, <<lockedCid>>),
     Response("undefined", <<>>, <<lockedCid>>),
     Response("tuple", <<lockedCid, lockedCid>>, <<>>),
     Response("undefined", <<>>, <<>>)}

getCreatedContractId(resp) ==
    IF Len(resp.created) > 0 THEN resp.created[1] ELSE UNDEFINED

\* Fault variant of SplitAmountCid: reads _2 / [1] / the second created event,
\* i.e. the remainder.
SplitAmountCid_Remainder(resp) ==
    IF resp.exerciseResult.kind \in {"tuple", "array"}
    THEN resp.exerciseResult.v[2]
    ELSE IF Len(resp.created) > 1 THEN resp.created[2] ELSE UNDEFINED

\* exerciseResult?._1 || exerciseResult[0] || exerciseResult, else the first
\* created event.
SplitAmountCid(resp) ==
    IF resp.exerciseResult.kind \in {"tuple", "array", "string"}
    THEN resp.exerciseResult.v[1]
    ELSE getCreatedContractId(resp)

\* Fault variant of LockedCid: the exercise result is taken as it is, empty
\* or not, string or not.
LockedCid_Unchecked(resp) ==
    IF resp.exerciseResult.kind # "undefined"
    THEN resp.exerciseResult.v[1]
    ELSE getCreatedContractId(resp)

\* The exercise result if it is a non-empty string, else the first created
\* event.
LockedCid(resp) ==
    IF resp.exerciseResult.kind = "string" /\ Truthy(resp.exerciseResult.v[1])
    THEN resp.exerciseResult.v[1]
    ELSE getCreatedContractId(resp)

\* The handler after its Split answered resp.
AfterSplit(s, resp) ==
    LET cid == SplitAmountCid(resp)
    IN  IF Truthy(cid)
        THEN [s EXCEPT !.pc = UseHoldingPc(s), !.holdingCid = cid, !.holdingAmount = s.amount]
        ELSE Threw(s, "SplitNoContractId")

\* lockUSDC after its Lock answered resp: it returns lockedCid to its caller.
AfterLock(s, resp) ==
    LET lockedCid == LockedCid(resp)
    IN  IF ~Truthy(lockedCid) THEN Threw(s, "LockNoContractId")
        ELSE CASE s.op = "createOffer" ->
                      [s EXCEPT !.pc = "create", !.lockedUSDCPrincipal = lockedCid]
               [] s.op = "acceptOffer" ->
                      [s EXCEPT !.pc = "accept", !.acceptorUSDCCid = lockedCid]
               [] OTHER -> Returned(s, lockedCid)

\* ------------------------------------------------------------ ledger steps
SetReq(r, s) == req' = [req EXCEPT ![r] = s]

OwnHoldings(p) == {h \in holdings : h.owner = p}

\* queryAssetHoldings and the selection that follows it.
HoldingsQuery(r) ==
    LET s == req[r]
    IN  /\ s.pc = "holdings_query"
        /\ \/ SetReq(r, Threw(s, "QueryError"))
           \/ \E hs \in Orders(OwnHoldings(s.partyId)) : SetReq(r, AfterHoldingsQuery(s, hs))
        /\ UNCHANGED <<ledgerVars, escrow, ccBalance, nextId, started, svcVars>>

SplitCmd(s) ==
    Cmd("ledger", "Split", s.largeEnough, {s.partyId}, [splitAmount |-> s.amount], TRUE)

\* The ledger's Split: archives the holding, creates the split amount and the remainder.
LedgerSplit(h, splitAmount) ==
    /\ holdings' = (holdings \ {h}) \cup
                     {[cid |-> nextId, owner |-> h.owner, amount |-> splitAmount],
                      [cid |-> nextId + 1, owner |-> h.owner, amount |-> h.amount - splitAmount]}
    /\ archived' = archived \cup {h}
    /\ nextId' = nextId + 2

Split(r) ==
    LET s == req[r]
        c == SplitCmd(s)
    IN  /\ s.pc = "split"
        /\ \/ /\ \E answer \in FailedAnswers : SetReq(r, SubmitFailed(s, c, answer))
              /\ UNCHANGED <<holdings, archived, nextId>>
           \/ \E h \in holdings :
                 /\ h.cid = c.cid
                 /\ h.owner \in c.actAs
                 /\ 0 < c.arg.splitAmount /\ c.arg.splitAmount < h.amount
                 /\ LedgerSplit(h, c.arg.splitAmount)
                 /\ \E resp \in SplitResponses(nextId, nextId + 1) :
                        SetReq(r, AfterSplit(Sent(s, c), resp))
        /\ UNCHANGED <<locked, offers, loans, loanState, offerLoans, escrow, ccBalance, started, svcVars>>

LockCmd(s) ==
    Cmd("ledger", "Lock", s.holdingCid, {s.partyId}, [releaseTo |-> s.releaseTo], TRUE)

\* The ledger's Lock: archives the holding and creates a LockedAssetHolding.
LedgerLock(h, releaseTo) ==
    /\ holdings' = holdings \ {h}
    /\ locked' = locked \cup {[cid |-> nextId, owner |-> h.owner, amount |-> h.amount,
                               releaseTo |-> releaseTo]}
    /\ archived' = archived \cup {h}
    /\ nextId' = nextId + 1

Lock(r) ==
    LET s == req[r]
        c == LockCmd(s)
    IN  /\ s.pc = "lock"
        /\ \/ /\ \E answer \in FailedAnswers : SetReq(r, SubmitFailed(s, c, answer))
              /\ UNCHANGED <<holdings, locked, archived, nextId>>
           \/ \E h \in holdings :
                 /\ h.cid = c.cid
                 /\ h.owner \in c.actAs
                 /\ LedgerLock(h, c.arg.releaseTo)
                 /\ \E resp \in LockResponses(nextId) : SetReq(r, AfterLock(Sent(s, c), resp))
        /\ UNCHANGED <<offers, loans, loanState, offerLoans, escrow, ccBalance, started, svcVars>>

TransferCmd(s) ==
    Cmd("ledger", "Transfer", s.holdingCid, {s.partyId, s.recipient},
        [newOwner |-> s.recipient], TRUE)

\* The ledger's Transfer: archives the holding and creates it for the new owner.
\* transferUSDC returns the transaction of the Transfer, identified here by the
\* contract it created.
LedgerTransfer(h, newOwner) ==
    /\ holdings' = (holdings \ {h}) \cup {[cid |-> nextId, owner |-> newOwner, amount |-> h.amount]}
    /\ archived' = archived \cup {h}
    /\ nextId' = nextId + 1

Transfer(r) ==
    LET s == req[r]
        c == TransferCmd(s)
    IN  /\ s.pc = "transfer"
        /\ \/ /\ \E answer \in FailedAnswers : SetReq(r, SubmitFailed(s, c, answer))
              /\ UNCHANGED <<holdings, archived, nextId>>
           \/ \E h \in holdings :
                 /\ h.cid = c.cid
                 /\ h.owner \in c.actAs
                 /\ LedgerTransfer(h, c.arg.newOwner)
                 /\ SetReq(r, Returned(Sent(s, c), nextId))
        /\ UNCHANGED <<locked, offers, loans, loanState, offerLoans, escrow, ccBalance, started, svcVars>>

\* -------------------------------------------------- native coin (escrow)
\* Fault variant of AfterAmuletsQuery: no pre-flight check.
AfterAmuletsQuery_NoCheck(s, amulets) == [s EXCEPT !.pc = "escrow_offer"]

\* lockAmulet after queryAmulets answered: the pre-flight balance check.
AfterAmuletsQuery(s, amulets) ==
    IF Len(amulets) = 0 THEN Threw(s, "NoAmulets")
    ELSE IF SumSeq(amulets) < s.amount
         THEN [Threw(s, "InsufficientBalance") EXCEPT !.need = s.amount, !.have = SumSeq(amulets)]
    ELSE [s EXCEPT !.pc = "escrow_offer"]

AmuletsQuery(r) ==
    LET s == req[r]
    IN  /\ s.pc = "amulets_query"
        /\ \/ SetReq(r, Threw(s, "QueryError"))
           \/ SetReq(r, AfterAmuletsQuery(s, ccBalance[s.partyId]))
        /\ UNCHANGED <<ledgerVars, escrow, ccBalance, nextId, started, svcVars>>

\* The bodies a successful POST transfer-offers can carry: the created
\* offer's id, or no offer_contract_id (an empty body is read as {}).
OfferResponses(id) == {[offer_contract_id |-> id], [offer_contract_id |-> UNDEFINED]}

\* lockAmulet returns result.offer_contract_id to createLoanOffer / acceptLoanOffer.
AfterEscrowOffer(s, body) ==
    LET lockedCid == body.offer_contract_id
    IN  CASE s.op = "createOffer" -> [s EXCEPT !.pc = "create", !.lockedCCCollateral = lockedCid]
          [] s.op = "acceptOffer" -> [s EXCEPT !.pc = "accept", !.acceptorCCReference = lockedCid]
          [] OTHER -> Returned(s, lockedCid)

\* new Date(maturityDate + 'T23:59:59Z'): the last second of the day, in
\* seconds since the start of day 0 (a day has 86400 of them).
EndOfDay(maturityDate) == DayOf(maturityDate) * 86400 + 86399

\* new Date(expiresAt).getTime() * 1000: the instant in microseconds, written
\* as <<seconds, microseconds of the second>>; an ISO string of whole seconds
\* has none.
Micros(seconds) == <<seconds, 0>>

\* Fault variant of EscrowOfferReq: the offer is made out to the sender.
EscrowOfferReq_ToSender(s) ==
    WithBearer(s, Cmd("escrow", "transfer-offers", NULL, {s.partyId},
                      [receiver_party_id |-> s.partyId, amount |-> s.amount,
                       expires_at |-> Micros(EndOfDay(s.maturityDate))], TRUE))

\* The POST of lockAmulet (a transfer offer to the lock holder, the custodian,
\* expiring at expiresAt in microseconds) and of transferCC (a token-standard
\* transfer to the recipient; its expiry, a day from now, is left out).
EscrowOfferReq(s) ==
    WithBearer(s,
        IF s.op = "transferCC"
        THEN Cmd("escrow", "token-standard/transfers", NULL, {s.partyId},
                 [receiver_party_id |-> s.recipient, amount |-> s.amount], TRUE)
        ELSE Cmd("escrow", "transfer-offers", NULL, {s.partyId},
                 [receiver_party_id |-> adminPartyId, amount |-> s.amount,
                  expires_at |-> Micros(EndOfDay(s.maturityDate))], TRUE))

\* The POST of walletApiFetch: with a user token nothing is awaited before
\* it, without one it follows the await of getValidatorToken.
EscrowOffer(r) ==
    LET s == req[r]
        c == EscrowOfferReq(s)
    IN  /\ s.pc = "escrow_post" \/ (s.pc = "escrow_offer" /\ Truthy(s.userToken))
        /\ \/ /\ SetReq(r, Threw(Sent(s, [c EXCEPT !.ok = FALSE]), "WalletApiError"))
              /\ UNCHANGED <<escrow, nextId>>
           \/ /\ escrow' = escrow \cup {[id |-> nextId, sender |-> WalletOf(s),
                                         receiver |-> c.arg.receiver_party_id,
                                         amount |-> c.arg.amount, kind |-> c.choice,
                                         status |-> "open"]}
              /\ nextId' = nextId + 1
              /\ \E body \in OfferResponses(nextId) : SetReq(r, AfterEscrowOffer(Sent(s, c), body))
        /\ UNCHANGED <<ledgerVars, ccBalance, started, svcVars>>

\* The escrow wallet settles the open entry o: a transfer offer is withdrawn
\* or accepted, a token-standard transfer accepted or rejected.
EscrowSettleOf(o, status) ==
    /\ o \in escrow /\ o.status = "open"
    /\ escrow' = (escrow \ {o}) \cup {[o EXCEPT !.status = status]}

\* The escrow wallet's withdraw / accept of a transfer offer: only an open
\* offer can be withdrawn or accepted.
EscrowSettle(id, status) ==
    \E o \in escrow : o.id = id /\ o.kind = "transfer-offers" /\ EscrowSettleOf(o, status)

\* ------------------------------------------------------------ loan offers
CreateOfferCmd(s) ==
    Cmd("ledger", "Create", NULL, {s.partyId},
        [initiator |-> s.partyId, offerType |-> s.offerType,
         lockedCCCollateral |-> JsonField(s.lockedCCCollateral),
         lockedUSDCPrincipal |-> JsonField(s.lockedUSDCPrincipal),
         loanAmount |-> s.loanAmount, collateralAmount |-> s.collateralAmount,
         maturityDate |-> s.maturityDate], TRUE)

CreateOffer(r) ==
    LET s == req[r]
        c == CreateOfferCmd(s)
    IN  /\ s.pc = "create"
        /\ \/ /\ \E answer \in FailedAnswers : SetReq(r, SubmitFailed(s, c, answer))
              /\ UNCHANGED <<offers, offerLoans, nextId>>
           \/ /\ offers' = offers \cup {[cid |-> nextId] @@ c.arg}
              /\ offerLoans' = offerLoans @@ (nextId :> {})
              /\ nextId' = nextId + 1
              /\ SetReq(r, Returned(Sent(s, c), nextId))
        /\ UNCHANGED <<holdings, locked, archived, loans, loanState, escrow, ccBalance, started, svcVars>>

AcceptCmd(s) ==
    Cmd("ledger", "AcceptHybrid", s.target, {s.initiator, s.partyId, adminPartyId},
        [acceptor |-> s.partyId, acceptorUSDCCid |-> JsonField(s.acceptorUSDCCid),
         acceptorCCReference |-> JsonField(s.acceptorCCReference)], TRUE)

\* Fault variant of LedgerAccept: the choice is not consuming, the offer and
\* the locked principal stay active.
LedgerAccept_KeepsOffer(o, c) ==
    LET bid == o.offerType = "BorrowerBid"
        borrower == IF bid THEN o.initiator ELSE c.arg.acceptor
        lender == IF bid THEN c.arg.acceptor ELSE o.initiator
        principalCid == IF bid THEN c.arg.acceptorUSDCCid ELSE o.lockedUSDCPrincipal
        ccRef == IF bid THEN o.lockedCCCollateral ELSE c.arg.acceptorCCReference
    IN  \E l \in locked :
            /\ l.cid = principalCid /\ l.owner = lender
            /\ UNCHANGED <<offers, locked, archived>>
            /\ holdings' = holdings \cup {[cid |-> nextId + 1, owner |-> borrower,
                                           amount |-> l.amount]}
            /\ loans' = loans \cup {[cid |-> nextId, borrower |-> borrower, lender |-> lender,
                                     ccCollateralReference |-> ccRef, principal |-> o.loanAmount,
                                     collateralAmount |-> o.collateralAmount,
                                     maturityDate |-> o.maturityDate]}
            /\ loanState' = loanState @@ (nextId :> "Active")
            /\ offerLoans' = [offerLoans EXCEPT ![o.cid] = @ \cup {nextId}]
            /\ nextId' = nextId + 2

\* The ledger's AcceptHybrid: archives the offer, hands the locked principal
\* to the borrower and creates the ActiveLoanHybrid.
LedgerAccept(o, c) ==
    LET bid == o.offerType = "BorrowerBid"
        borrower == IF bid THEN o.initiator ELSE c.arg.acceptor
        lender == IF bid THEN c.arg.acceptor ELSE o.initiator
        principalCid == IF bid THEN c.arg.acceptorUSDCCid ELSE o.lockedUSDCPrincipal
        ccRef == IF bid THEN o.lockedCCCollateral ELSE c.arg.acceptorCCReference
    IN  \E l \in locked :
            /\ l.cid = principalCid /\ l.owner = lender
            /\ offers' = offers \ {o}
            /\ locked' = locked \ {l}
            /\ archived' = archived \cup {o, l}
            /\ holdings' = holdings \cup {[cid |-> nextId + 1, owner |-> borrower,
                                           amount |-> l.amount]}
            /\ loans' = loans \cup {[cid |-> nextId, borrower |-> borrower, lender |-> lender,
                                     ccCollateralReference |-> ccRef, principal |-> o.loanAmount,
                                     collateralAmount |-> o.collateralAmount,
                                     maturityDate |-> o.maturityDate]}
            /\ loanState' = loanState @@ (nextId :> "Active")
            /\ offerLoans' = [offerLoans EXCEPT ![o.cid] = @ \cup {nextId}]
            /\ nextId' = nextId + 2

Accept(r) ==
    LET s == req[r]
        c == AcceptCmd(s)
    IN  /\ s.pc = "accept"
        /\ \/ /\ \E answer \in FailedAnswers : SetReq(r, SubmitFailed(s, c, answer))
              /\ UNCHANGED <<ledgerVars, nextId>>
           \/ \E o \in offers :
                 /\ o.cid = c.cid
                 /\ {o.initiator, c.arg.acceptor, adminPartyId} \subseteq c.actAs
                 /\ c.arg.acceptor # o.initiator
                 /\ LedgerAccept(o, c)
                 /\ SetReq(r, Returned(Sent(s, c), nextId))
        /\ UNCHANGED <<escrow, ccBalance, started, svcVars>>

\* ------------------------------------------------------------ active loans
\* queryActiveLoans(partyId): the active loans the party is a stakeholder of.
VisibleLoans(p) == {l \in loans : p \in {l.borrower, l.lender}}

\* Fault variant of FindLoan: the loan is looked up among all loans the
\* ledger ever held, settled ones included.
FindLoan_Settled(p, loanContractId) ==
    {l \in loans \cup {a \in archived : "ccCollateralReference" \in DOMAIN a} :
        p \in {l.borrower, l.lender} /\ l.cid = loanContractId}

FindLoan(p, loanContractId) == {l \in VisibleLoans(p) : l.cid = loanContractId}

\* repayLoan after queryActiveLoans answered.
AfterRepayLoansQuery(s, found) ==
    IF found = {} THEN Threw(s, "NotFound")
    ELSE [s EXCEPT !.pc = "holdings_query", !.loan = CHOOSE l \in found : TRUE]

\* defaultLoan after queryActiveLoans answered: the maturity check compares
\* the two date strings.
AfterDefaultLoansQuery(s, found) ==
    IF found = {} THEN Threw(s, "NotFound")
    ELSE LET loan == CHOOSE l \in found : TRUE
         IN  IF LexLess(s.claimDate, loan.maturityDate)
             THEN [Threw(s, "ValidationError") EXCEPT !.loan = loan]
             ELSE [s EXCEPT !.pc = "default", !.loan = loan]

LoansQuery(r) ==
    LET s == req[r]
    IN  /\ s.pc = "loans_query"
        /\ \/ SetReq(r, Threw(s, "QueryError"))
           \/ SetReq(r, IF s.op = "repayLoan"
                        THEN AfterRepayLoansQuery(s, FindLoan(s.partyId, s.target))
                        ELSE AfterDefaultLoansQuery(s, FindLoan(s.partyId, s.target)))
        /\ UNCHANGED <<ledgerVars, escrow, ccBalance, nextId, started, svcVars>>

RepayCmd(s) ==
    Cmd("ledger", "RepayHybrid", s.target, {s.partyId, s.loan.lender},
        [repaymentHoldingCid |-> s.holdingCid], TRUE)

\* Fault variant of LedgerRepay: the choice is not consuming, the loan stays
\* active after it was settled.
LedgerRepay_KeepsLoan(l, h) ==
    /\ loans' = loans
    /\ loanState' = [loanState EXCEPT ![l.cid] = "Repaid"]
    /\ holdings' = (holdings \ {h}) \cup {[cid |-> nextId, owner |-> l.lender, amount |-> h.amount]}
    /\ archived' = archived \cup {h}
    /\ nextId' = nextId + 1

\* The ledger's RepayHybrid: archives the loan (settled) and hands the
\* repayment holding to the lender.
LedgerRepay(l, h) ==
    /\ loans' = loans \ {l}
    /\ loanState' = [loanState EXCEPT ![l.cid] = "Repaid"]
    /\ holdings' = (holdings \ {h}) \cup {[cid |-> nextId, owner |-> l.lender, amount |-> h.amount]}
    /\ archived' = archived \cup {l, h}
    /\ nextId' = nextId + 1

\* repayLoan after RepayHybrid succeeded with result repayResult.
AfterRepay(s, repayResult) ==
    IF Truthy(s.loan.ccCollateralReference)
    THEN [s EXCEPT !.pc = "unlock", !.ledgerResult = repayResult]
    ELSE Returned([s EXCEPT !.ledgerResult = repayResult], repayResult)

Repay(r) ==
    LET s == req[r]
        c == RepayCmd(s)
    IN  /\ s.pc = "repay"
        /\ \/ /\ \E answer \in FailedAnswers : SetReq(r, SubmitFailed(s, c, answer))
              /\ UNCHANGED <<holdings, archived, loans, loanState, nextId>>
           \/ \E l \in loans, h \in holdings :
                 /\ l.cid = c.cid /\ h.cid = c.arg.repaymentHoldingCid
                 /\ {l.borrower, l.lender} \subseteq c.actAs
                 /\ h.owner = l.borrower
                 /\ LedgerRepay(l, h)
                 /\ SetReq(r, AfterRepay(Sent(s, c), nextId))
        /\ UNCHANGED <<locked, offers, offerLoans, escrow, ccBalance, started, svcVars>>

EscrowReq(s, verb) ==
    WithBearer(s, Cmd("escrow", verb, s.loan.ccCollateralReference, {s.partyId},
                      [none |-> NULL], TRUE))

\* Fault variant of Unlock: no try / catch, the unlock failure reaches the caller.
Unlock_Rethrows(r) ==
    LET s == req[r]
        c == EscrowReq(s, "withdraw")
    IN  /\ s.pc = "unlock"
        /\ \/ /\ SetReq(r, Threw(Sent(s, [c EXCEPT !.ok = FALSE]), "WalletApiError"))
              /\ UNCHANGED escrow
           \/ /\ EscrowSettle(c.cid, "withdrawn")
              /\ SetReq(r, Returned(Sent(s, c), s.ledgerResult))
        /\ UNCHANGED <<ledgerVars, ccBalance, nextId, started, svcVars>>

\* unlockAmulet inside repayLoan's try / catch: a failure is logged only.
Unlock(r) ==
    LET s == req[r]
        c == EscrowReq(s, "withdraw")
    IN  /\ s.pc = "unlock"
        /\ \/ /\ SetReq(r, Returned(Sent(s, [c EXCEPT !.ok = FALSE]), s.ledgerResult))
              /\ UNCHANGED escrow
           \/ /\ EscrowSettle(c.cid, "withdrawn")
              /\ SetReq(r, Returned(Sent(s, c), s.ledgerResult))
        /\ UNCHANGED <<ledgerVars, ccBalance, nextId, started, svcVars>>

DefaultCmd(s) ==
    Cmd("ledger", "ClaimDefaultHybrid", s.target, {s.partyId, s.loan.borrower},
        [claimDate |-> s.claimDate], TRUE)

\* The ledger's ClaimDefaultHybrid: archives the loan (defaulted).
LedgerDefault(l) ==
    /\ loans' = loans \ {l}
    /\ loanState' = [loanState EXCEPT ![l.cid] = "Defaulted"]
    /\ archived' = archived \cup {l}
    /\ nextId' = nextId + 1

\* defaultLoan after ClaimDefaultHybrid succeeded with result defaultResult.
AfterDefault(s, defaultResult) ==
    IF Truthy(s.loan.ccCollateralReference)
    THEN [s EXCEPT !.pc = "claim", !.ledgerResult = defaultResult]
    ELSE Returned([s EXCEPT !.ledgerResult = defaultResult], defaultResult)

Default(r) ==
    LET s == req[r]
        c == DefaultCmd(s)
    IN  /\ s.pc = "default"
        /\ \/ /\ \E answer \in FailedAnswers : SetReq(r, SubmitFailed(s, c, answer))
              /\ UNCHANGED <<archived, loans, loanState, nextId>>
           \/ \E l \in loans :
                 /\ l.cid = c.cid
                 /\ {l.borrower, l.lender} \subseteq c.actAs
                 /\ IsIsoDate(c.arg.claimDate)
                 /\ LedgerDefault(l)
                 /\ SetReq(r, AfterDefault(Sent(s, c), nextId))
        /\ UNCHANGED <<holdings, locked, offers, offerLoans, escrow, ccBalance, started, svcVars>>

\* Fault variant of Claim: no try / catch, the claim failure reaches the caller.
Claim_Rethrows(r) ==
    LET s == req[r]
        c == EscrowReq(s, "accept")
    IN  /\ s.pc = "claim"
        /\ \/ /\ SetReq(r, Threw(Sent(s, [c EXCEPT !.ok = FALSE]), "WalletApiError"))
              /\ UNCHANGED escrow
           \/ /\ EscrowSettle(c.cid, "accepted")
              /\ SetReq(r, Returned(Sent(s, c), s.ledgerResult))
        /\ UNCHANGED <<ledgerVars, ccBalance, nextId, started, svcVars>>

\* The accept of the collateral offer inside defaultLoan's try / catch.
Claim(r) ==
    LET s == req[r]
        c == EscrowReq(s, "accept")
    IN  /\ s.pc = "claim"
        /\ \/ /\ SetReq(r, Returned(Sent(s, [c EXCEPT !.ok = FALSE]), s.ledgerResult))
              /\ UNCHANGED escrow
           \/ /\ EscrowSettle(c.cid, "accepted")
              /\ SetReq(r, Returned(Sent(s, c), s.ledgerResult))
        /\ UNCHANGED <<ledgerVars, ccBalance, nextId, started, svcVars>>

\* rejectTransfer(transferId): the token-standard reject fails for a transfer
\* offer and the handler falls back to withdrawing the offer.
RejectTransfer(id) ==
    /\ EscrowSettle(id, "withdrawn")
    /\ UNCHANGED <<ledgerVars, ccBalance, nextId, req, started, svcVars>>

\* --------------------------------------------------------- request starts
\* Slots are interchangeable: a request takes the lowest free one.
CanStart(r) ==
    /\ req[r].pc = "idle"
    /\ \A q \in ReqIds : q < r => req[q].pc # "idle"
    /\ started < MaxOps

Other(p) == CHOOSE q \in Parties : q # p

StartLockUSDC(r) ==
    /\ CanStart(r)
    /\ \E p \in Parties, amount \in 1..MaxAmount :
          SetReq(r, [Idle EXCEPT !.op = "lockUSDC", !.pc = "holdings_query", !.partyId = p,
                                 !.amount = amount, !.releaseTo = p])
    /\ started' = started + 1
    /\ UNCHANGED <<ledgerVars, escrow, ccBalance, nextId, svcVars>>

\* lockAmulet called on its own, the custodian as lock holder.
StartLockAmulet(r) ==
    /\ CanStart(r)
    /\ \E p \in Parties, amount \in 1..MaxAmount :
          SetReq(r, [Idle EXCEPT !.op = "lockAmulet", !.pc = "amulets_query", !.partyId = p,
                                 !.amount = amount])
    /\ started' = started + 1
    /\ UNCHANGED <<ledgerVars, escrow, ccBalance, nextId, svcVars>>

StartTransferUSDC(r) ==
    /\ CanStart(r)
    /\ \E p \in Parties, amount \in 1..MaxAmount :
          SetReq(r, [Idle EXCEPT !.op = "transferUSDC", !.pc = "holdings_query", !.partyId = p,
                                 !.amount = amount, !.recipient = Other(p)])
    /\ started' = started + 1
    /\ UNCHANGED <<ledgerVars, escrow, ccBalance, nextId, svcVars>>

\* ------------------------------------------------------------------ wallet
WalletOps ==
    {"transferUSDC", "transferCC", "getBalance", "listTransfers", "acceptTransfer",
     "rejectTransfer"}

\* Fault variant of EnsureValid: a transfer to oneself is let through.
EnsureValid_SelfTransfer(op, partyId, recipientPartyId) == partyId # NoParty

\* WalletService's checks before it calls DamlService: ensureOnboarded, and
\* for the two transfers the comparison of the party with the recipient.
EnsureValid(op, partyId, recipientPartyId) ==
    /\ partyId # NoParty
    /\ op \in {"transferUSDC", "transferCC"} => partyId # recipientPartyId

\* A WalletService operation is called for the current user, whose partyId is
\* null (NoParty) until the user is onboarded.
StartWallet(r) ==
    /\ CanStart(r)
    /\ \E op \in WalletOps, partyId \in Parties \cup {NoParty}, recipientPartyId \in Parties,
          amount \in 1..MaxAmount, transferId \in {o.id : o \in escrow} :
          LET s == [Idle EXCEPT !.op = op, !.partyId = partyId, !.amount = amount,
                                !.recipient = recipientPartyId,
                                !.target = IF op \in {"acceptTransfer", "rejectTransfer"}
                                           THEN transferId ELSE NULL]
          IN  SetReq(r, IF ~EnsureValid(op, partyId, recipientPartyId)
                        THEN Threw(s, "ValidationError")
                        ELSE [s EXCEPT !.pc = CASE op = "transferUSDC" -> "holdings_query"
                                                [] op = "transferCC" -> "amulets_query"
                                                [] OTHER -> "wallet_call"])
    /\ started' = started + 1
    /\ UNCHANGED <<ledgerVars, escrow, ccBalance, nextId, svcVars>>

\* The request acceptTransfer / rejectTransfer sends: the token-standard
\* endpoint first, the transfer-offers endpoint in the catch block.
TransferReq(s, kind) ==
    WithBearer(s, Cmd("escrow",
                      CASE s.op = "acceptTransfer" -> "accept"
                        [] kind = "transfer-offers" -> "withdraw"
                        [] OTHER -> "reject",
                      s.target, {s.partyId}, [endpoint |-> kind], TRUE))

\* What the escrow wallet does on the request c for the party: the receiver
\* accepts or rejects, the sender withdraws.
WalletSettle(c, partyId) ==
    \E o \in escrow :
        /\ o.id = c.cid /\ o.kind = c.arg.endpoint
        /\ partyId = IF c.choice = "withdraw" THEN o.sender ELSE o.receiver
        /\ EscrowSettleOf(o, CASE c.choice = "accept" -> "accepted"
                               [] c.choice = "withdraw" -> "withdrawn"
                               [] OTHER -> "rejected")

\* The DamlService method behind getBalance, listTransfers, acceptTransfer
\* and rejectTransfer issues its first request: the queries of the balances,
\* the two GETs of listTransfers, or the token-standard accept / reject,
\* whose failure is caught.
WalletCall(r) ==
    LET s == req[r]
        c == IF s.op = "listTransfers"
             THEN WithBearer(s, Cmd("escrow", "list", NULL, {s.partyId},
                                    [endpoint |-> "both"], TRUE))
             ELSE TransferReq(s, "token-standard/transfers")
    IN  /\ s.pc = "wallet_call"
        /\ CASE s.op = "getBalance" ->
                  /\ SetReq(r, Threw(s, "QueryError")) \/ SetReq(r, Returned(s, NULL))
                  /\ UNCHANGED escrow
             [] s.op = "listTransfers" ->
                  /\ \/ SetReq(r, Threw(Sent(s, [c EXCEPT !.ok = FALSE]), "WalletApiError"))
                     \/ SetReq(r, Returned(Sent(s, c), NULL))
                  /\ UNCHANGED escrow
             [] OTHER ->
                  \/ /\ SetReq(r, [Sent(s, [c EXCEPT !.ok = FALSE]) EXCEPT !.pc = "fallback"])
                     /\ UNCHANGED escrow
                  \/ /\ WalletSettle(c, s.partyId)
                     /\ SetReq(r, Returned(Sent(s, c), s.target))
        /\ UNCHANGED <<ledgerVars, ccBalance, nextId, started, svcVars>>

\* The catch block of acceptTransfer / rejectTransfer: the request is sent
\* again, to the transfer-offers endpoint; only its failure reaches the caller.
Fallback(r) ==
    LET s == req[r]
        c == TransferReq(s, "transfer-offers")
    IN  /\ s.pc = "fallback"
        /\ \/ /\ SetReq(r, Threw(Sent(s, [c EXCEPT !.ok = FALSE]), "WalletApiError"))
              /\ UNCHANGED escrow
           \/ /\ WalletSettle(c, s.partyId)
              /\ SetReq(r, Returned(Sent(s, c), s.target))
        /\ UNCHANGED <<ledgerVars, ccBalance, nextId, started, svcVars>>

\* --------------------------------------------- offer object of acceptOffer
\* The offer objects a caller can post with the id of the ledger's offer o:
\* the terms of o, or terms that disagree with them in the amounts or in the
\* initiator.
OfferObjects(o) ==
    {[offerType |-> o.offerType, initiator |-> i, loanAmount |-> la,
      collateralAmount |-> ca, maturityDate |-> o.maturityDate] :
        i \in Parties, la \in {o.loanAmount, 1}, ca \in {o.collateralAmount, 2}}

\* LoansController.acceptOffer: contractId is the path parameter, the offer
\* the dto.offer of the body; acceptLoanOffer reads the terms from the latter.
StartAcceptOfferWith(r) ==
    /\ CanStart(r)
    /\ \E o \in offers : \E p \in Parties \ {o.initiator} : \E offer \in OfferObjects(o) :
          SetReq(r, [Idle EXCEPT
                       !.op = "acceptOffer", !.partyId = p, !.target = o.cid,
                       !.offerType = offer.offerType, !.initiator = offer.initiator,
                       !.loanAmount = offer.loanAmount,
                       !.collateralAmount = offer.collateralAmount,
                       !.maturityDate = offer.maturityDate,
                       !.pc = IF offer.offerType = "BorrowerBid" THEN "holdings_query"
                              ELSE "amulets_query",
                       !.amount = IF offer.offerType = "BorrowerBid" THEN offer.loanAmount
                                  ELSE offer.collateralAmount,
                       !.releaseTo = offer.initiator])
    /\ started' = started + 1
    /\ UNCHANGED <<ledgerVars, escrow, ccBalance, nextId, svcVars>>

\* ---------------------------------------------------- inputs of the loans
LoanAmounts == {2}
CollateralAmounts == {1}
RepaymentAmounts == {2}
MaturityDates == {D10}
Todays == {D02, D11}
ClaimDateOverrides == {<<>>, U5}

StartCreateOffer(r) ==
    /\ CanStart(r)
    /\ \E p \in Parties, offerType \in {"BorrowerBid", "LenderAsk"},
          loanAmount \in LoanAmounts, collateralAmount \in CollateralAmounts,
          maturityDate \in MaturityDates :
          SetReq(r, [Idle EXCEPT
                       !.op = "createOffer", !.partyId = p, !.offerType = offerType,
                       !.loanAmount = loanAmount, !.collateralAmount = collateralAmount,
                       !.maturityDate = maturityDate,
                       !.pc = IF offerType = "BorrowerBid" THEN "amulets_query"
                              ELSE "holdings_query",
                       !.amount = IF offerType = "BorrowerBid" THEN collateralAmount
                                  ELSE loanAmount,
                       !.releaseTo = p])
    /\ started' = started + 1
    /\ UNCHANGED <<ledgerVars, escrow, ccBalance, nextId, svcVars>>

\* The caller passes the offer it read from the ledger.
StartAcceptOffer(r) ==
    /\ CanStart(r)
    /\ \E o \in offers : \E p \in Parties \ {o.initiator} :
          SetReq(r, [Idle EXCEPT
                       !.op = "acceptOffer", !.partyId = p, !.target = o.cid,
                       !.offerType = o.offerType, !.initiator = o.initiator,
                       !.loanAmount = o.loanAmount, !.collateralAmount = o.collateralAmount,
                       !.maturityDate = o.maturityDate,
                       !.pc = IF o.offerType = "BorrowerBid" THEN "holdings_query"
                              ELSE "amulets_query",
                       !.amount = IF o.offerType = "BorrowerBid" THEN o.loanAmount
                                  ELSE o.collateralAmount,
                       !.releaseTo = o.initiator])
    /\ started' = started + 1
    /\ UNCHANGED <<ledgerVars, escrow, ccBalance, nextId, svcVars>>

\* Any loan id the ledger ever assigned may be named, also a settled one, and
\* an id the ledger never assigned.
LoanIds == DOMAIN loanState \cup {NULL}

StartRepayLoan(r) ==
    /\ CanStart(r)
    /\ \E p \in Parties, loanContractId \in LoanIds, amount \in RepaymentAmounts :
          SetReq(r, [Idle EXCEPT !.op = "repayLoan", !.pc = "loans_query", !.partyId = p,
                                 !.target = loanContractId, !.amount = amount])
    /\ started' = started + 1
    /\ UNCHANGED <<ledgerVars, escrow, ccBalance, nextId, svcVars>>

StartDefaultLoan(r) ==
    /\ CanStart(r)
    /\ \E p \in Parties, loanContractId \in LoanIds,
          today \in Todays, overrideClaimDate \in ClaimDateOverrides :
          SetReq(r, [Idle EXCEPT !.op = "defaultLoan", !.pc = "loans_query", !.partyId = p,
                                 !.target = loanContractId,
                                 !.claimDate = IF overrideClaimDate # <<>>
                                               THEN overrideClaimDate ELSE today])
    /\ started' = started + 1
    /\ UNCHANGED <<ledgerVars, escrow, ccBalance, nextId, svcVars>>

\* The handler's promise settles and the slot is free again.
Return(r) ==
    /\ req[r].pc = "done"
    /\ SetReq(r, Idle)
    /\ UNCHANGED <<ledgerVars, escrow, ccBalance, nextId, started, svcVars>>

\* ------------------------------------------------------------ token cache
\* getAuth0Token(audience): the OAuth2 client-credentials token of the service
\* for the ledger API and for the wallet API, cached per audience.
Audiences == {"ledger", "wallet"}

TokIds == {1, 2}

\* The 60 s the cache keeps clear of the expiry: one tick of the clock.
TokenMarginTicks == 1

\* expires_in of a token response, in ticks: 0 s, 60 s, 180 s.
ExpiresIns == {0, 1, 3}

MaxTime == 3
MaxExchanges == 2

TokIdle ==
    [pc |-> "idle", audience |-> "none", fromCache |-> FALSE,
     response |-> [kind |-> "none", access_token |-> UNDEFINED, expires_in |-> 0],
     outcome |-> "none", error |-> "none", result |-> UNDEFINED]

\* What the token endpoint can answer: success with the token id and its
\* lifetime, success without access_token, a non-2xx status, or no answer at
\* all (the request errors).
TokenResponses(id) ==
    {[kind |-> k, access_token |-> t, expires_in |-> e] :
        k \in {"ok"}, t \in {id, UNDEFINED}, e \in ExpiresIns}
    \cup {[kind |-> k, access_token |-> UNDEFINED, expires_in |-> 0] : k \in {"status", "transport"}}

\* Fault variant of ExpiresAt: the 60 s margin is forgotten.
ExpiresAt_NoMargin(t, expires_in) == t + expires_in

\* Date.now() + (data.expires_in - 60) * 1000
ExpiresAt(t, expires_in) == t + (expires_in - TokenMarginTicks)

\* tokenCache.get(audience) is an entry that has not expired.
CacheHit(audience) ==
    audience \in DOMAIN tokenCache /\ tokenCache[audience].expiresAt > now

\* Fault variant of MapSet: an existing entry is kept, the first writer wins.
MapSet_KeepsEntry(map, key, value) ==
    [k \in DOMAIN map \cup {key} |-> IF k \in DOMAIN map THEN map[k] ELSE value]

\* Map.prototype.set
MapSet(map, key, value) ==
    [k \in DOMAIN map \cup {key} |-> IF k = key THEN value ELSE map[k]]

SetTok(k, s) == tok' = [tok EXCEPT ![k] = s]

\* A call takes the lowest free slot.
CanGetToken(k) ==
    /\ tok[k].pc = "idle"
    /\ \A j \in TokIds : j < k => tok[j].pc # "idle"

\* getAuth0Token up to its first await: the cache lookup.
GetToken(k) ==
    /\ CanGetToken(k)
    /\ \E audience \in Audiences :
          /\ \/ CacheHit(audience)
             \/ Len(exchanges) + Cardinality({j \in TokIds : tok[j].pc = "exchange"})
                   < MaxExchanges
          /\ SetTok(k, IF CacheHit(audience)
                       THEN [TokIdle EXCEPT !.pc = "done", !.audience = audience,
                                            !.fromCache = TRUE, !.outcome = "returned",
                                            !.result = tokenCache[audience].token]
                       ELSE [TokIdle EXCEPT !.pc = "exchange", !.audience = audience])
    /\ UNCHANGED <<tokenCache, now, exchanges, call, lendingVars>>

\* getAuth0Token after the token endpoint answered resp.
AfterExchange(s, resp) ==
    CASE resp.kind = "transport" ->
             [s EXCEPT !.pc = "done", !.response = resp, !.outcome = "threw",
                       !.error = "TransportError"]
      [] resp.kind = "status" ->
             [s EXCEPT !.pc = "done", !.response = resp, !.outcome = "threw",
                       !.error = "AuthTokenError"]
      [] OTHER ->
             [s EXCEPT !.pc = "done", !.response = resp, !.outcome = "returned",
                       !.result = resp.access_token]

\* The exchange with the token endpoint and the code after it.
Exchange(k) ==
    LET s == tok[k]
    IN  /\ s.pc = "exchange"
        /\ \E resp \in TokenResponses(Len(exchanges) + 1) :
              /\ exchanges' = Append(exchanges, [audience |-> s.audience, at |-> now,
                                                 response |-> resp])
              /\ SetTok(k, AfterExchange(s, resp))
              /\ tokenCache' =
                    IF resp.kind = "ok"
                    THEN MapSet(tokenCache, s.audience,
                                [token |-> resp.access_token,
                                 expiresAt |-> ExpiresAt(now, resp.expires_in)])
                    ELSE tokenCache
        /\ UNCHANGED <<now, call, lendingVars>>

\* The caller has its answer.
TokReturn(k) ==
    /\ tok[k].pc = "done"
    /\ SetTok(k, TokIdle)
    /\ UNCHANGED <<tokenCache, now, exchanges, call, lendingVars>>

\* Time passes.
Tick ==
    /\ now < MaxTime
    /\ now' = now + 1
    /\ UNCHANGED <<tokenCache, exchanges, tok, call, lendingVars>>

\* ------------------------------------------------- tokens of escrow calls
\* What a caller of lockAmulet / transferCC forwards as userToken: the user's
\* raw bearer token, the empty string the JWT strategy yields for a header
\* that does not start with 'Bearer ', or nothing.
UserTokens == {rawToken, NULL, UNDEFINED}

\* lockAmulet or transferCC is called with a userToken argument.
StartLockAmuletWith(r) ==
    /\ CanStart(r)
    /\ Len(exchanges) < MaxExchanges
    /\ \E op \in {"lockAmulet", "transferCC"}, p \in Parties, amount \in CollateralAmounts,
          userToken \in UserTokens :
          SetReq(r, [Idle EXCEPT !.op = op, !.pc = "amulets_query", !.partyId = p,
                                 !.amount = amount, !.recipient = Other(p),
                                 !.userToken = userToken])
    /\ started' = started + 1
    /\ UNCHANGED <<ledgerVars, escrow, ccBalance, nextId, svcVars>>

\* await this.getValidatorToken() in walletApiFetch, reached only with a
\* falsy userToken: the cached token of the wallet audience, or an exchange
\* whose failure rejects the call.
WalletToken(r) ==
    LET s == req[r]
    IN  /\ s.pc = "escrow_offer" /\ ~Truthy(s.userToken)
        /\ IF CacheHit("wallet")
           THEN /\ SetReq(r, [s EXCEPT !.pc = "escrow_post",
                                       !.token = tokenCache["wallet"].token])
                /\ UNCHANGED <<tokenCache, exchanges>>
           ELSE \E resp \in TokenResponses(Len(exchanges) + 1) :
                  /\ exchanges' = Append(exchanges, [audience |-> "wallet", at |-> now,
                                                      response |-> resp])
                  /\ tokenCache' =
                       IF resp.kind = "ok"
                       THEN MapSet(tokenCache, "wallet",
                                   [token |-> resp.access_token,
                                    expiresAt |-> ExpiresAt(now, resp.expires_in)])
                       ELSE tokenCache
                  /\ SetReq(r, CASE resp.kind = "transport" -> Threw(s, "TransportError")
                                 [] resp.kind = "status" -> Threw(s, "AuthTokenError")
                                 [] OTHER -> [s EXCEPT !.pc = "escrow_post",
                                                       !.token = resp.access_token])
        /\ UNCHANGED <<now, tok, call, ledgerVars, escrow, ccBalance, nextId, started>>

\* ------------------------------------------------------------- read path
CallIdle == [op |-> "idle", pc |-> "idle"]

\* No token call and no read-path call has happened or is in flight.
ServiceIdle ==
    /\ tokenCache = <<>> /\ now = 0 /\ exchanges = <<>>
    /\ tok = [k \in TokIds |-> TokIdle]
    /\ call = CallIdle

\* No lending request has happened; the ledger and the escrow wallet are empty.
LendingIdle ==
    /\ holdings = {} /\ locked = {} /\ archived = {} /\ offers = {} /\ loans = {}
    /\ loanState = <<>> /\ offerLoans = <<>> /\ escrow = {} /\ nextId = 1
    /\ ccBalance = [p \in Parties |-> <<>>]
    /\ req = [r \in ReqIds |-> Idle]
    /\ started = 0

\* The read-path call settles.
CallReturn ==
    /\ call.pc = "done"
    /\ call' = CallIdle
    /\ UNCHANGED <<tokenCache, now, exchanges, tok, lendingVars>>

\* ---------------------------------------------------------------- balances
\* The five queries of getTokenBalances, in the order it awaits them.
BalanceQueries == <<"holdings", "lockedHoldings", "activeLoans", "amulets", "lockedAmulets">>

\* The initialAmounts of the LockedAmulet contracts a party may have.
LockedAmuletAnswers == {<<>>, <<1>>, <<2, 1>>}

\* An active-contracts query answers with the contracts of the template that
\* are visible to the party: its own, and possibly contracts of other owners.
VisibleTo(S, partyId) ==
    {{h \in S : h.owner = partyId} \cup X : X \in SUBSET {h \in S : h.owner # partyId}}

\* What the ledger may answer to query q of getTokenBalances(partyId).
QueryAnswers(q, partyId) ==
    CASE q = "holdings"       -> VisibleTo(holdings, partyId)
      [] q = "lockedHoldings" -> VisibleTo(locked, partyId)
      [] q = "activeLoans"    -> {VisibleLoans(partyId)}
      [] q = "amulets"        -> {ccBalance[partyId]}
      [] OTHER                -> LockedAmuletAnswers

\* reduce((sum, h) => sum + parseFloat(h.payload.amount), 0) over contracts.
RECURSIVE SumAmounts(_)
SumAmounts(S) ==
    IF S = {} THEN 0 ELSE LET h == CHOOSE x \in S : TRUE IN h.amount + SumAmounts(S \ {h})

RECURSIVE SumPrincipal(_)
SumPrincipal(S) ==
    IF S = {} THEN 0 ELSE LET l == CHOOSE x \in S : TRUE IN l.principal + SumPrincipal(S \ {l})

UsdcOf(S, partyId) == {h \in S : h.assetType = "USDC" /\ h.owner = partyId}

\* Fault variant of getTokenBalances: the borrowed principal counted in total.
getTokenBalances_TotalWithBorrowed(c) ==
    LET usdcAvailable == SumAmounts(UsdcOf(c.holdings, c.partyId))
        usdcLocked == SumAmounts(UsdcOf(c.lockedHoldings, c.partyId))
        usdcBorrowed == SumPrincipal({l \in c.activeLoans : l.borrower = c.partyId})
        ccAvailable == SumSeq(c.amulets)
        ccLocked == SumSeq(c.lockedAmulets)
    IN  [usdc |-> [assetType |-> "USDC", available |-> usdcAvailable, locked |-> usdcLocked,
                   borrowed |-> usdcBorrowed,
                   total |-> usdcAvailable + usdcLocked + usdcBorrowed],
         cc |-> [assetType |-> "CC", available |-> ccAvailable, locked |-> ccLocked,
                 borrowed |-> 0, total |-> ccAvailable + ccLocked]]

\* The value getTokenBalances computes from the five answers.
getTokenBalances(c) ==
    LET usdcAvailable == SumAmounts(UsdcOf(c.holdings, c.partyId))
        usdcLocked == SumAmounts(UsdcOf(c.lockedHoldings, c.partyId))
        usdcBorrowed == SumPrincipal({l \in c.activeLoans : l.borrower = c.partyId})
        ccAvailable == SumSeq(c.amulets)
        ccLocked == SumSeq(c.lockedAmulets)
    IN  [usdc |-> [assetType |-> "USDC", available |-> usdcAvailable, locked |-> usdcLocked,
                   borrowed |-> usdcBorrowed, total |-> usdcAvailable + usdcLocked],
         cc |-> [assetType |-> "CC", available |-> ccAvailable, locked |-> ccLocked,
                 borrowed |-> 0, total |-> ccAvailable + ccLocked]]

StartBalances ==
    /\ call.pc = "idle"
    /\ \E partyId \in Parties :
          call' = [op |-> "balances", pc |-> "query", at |-> 1, partyId |-> partyId,
                   holdings |-> {}, lockedHoldings |-> {}, activeLoans |-> {},
                   amulets |-> <<>>, lockedAmulets |-> <<>>,
                   outcome |-> "none", error |-> "none", result |-> NULL]
    /\ UNCHANGED <<tokenCache, now, exchanges, tok, lendingVars>>

\* getTokenBalances after query q answered: on to the next query, or, after
\* the last one, the sums.
AfterBalancesQuery(c, q, answer) ==
    LET got == [c EXCEPT ![q] = answer]
    IN  IF c.at < Len(BalanceQueries) THEN [got EXCEPT !.at = c.at + 1]
        ELSE Returned(got, getTokenBalances(got))

\* One awaited query of getTokenBalances: it fails, or the ledger answers.
BalancesQuery(q) ==
    /\ call.op = "balances" /\ call.pc = "query" /\ BalanceQueries[call.at] = q
    /\ \/ call' = Threw(call, "QueryError")
       \/ \E answer \in QueryAnswers(q, call.partyId) :
             call' = AfterBalancesQuery(call, q, answer)
    /\ UNCHANGED <<tokenCache, now, exchanges, tok, lendingVars>>

\* ------------------------------------------------------- active contracts
\* getLatestOffset's fallback when it could not read the ledger end.
FallbackOffset == 999999999

\* The offsets a ledger-end answer may carry.
LedgerEnds == {0, 7}

Templates == {"AssetHolding", "LockedAssetHolding"}

\* How a customFetch settles: resolved with a success status ("ok"), resolved
\* with another status ("status"), or rejected by the request's error event
\* ("transport").
FetchKinds == {"ok", "status", "transport"}

LedgerEndResponses ==
    {[kind |-> "ok", offset |-> o] : o \in LedgerEnds \cup {UNDEFINED}}
        \cup {[kind |-> k, offset |-> UNDEFINED] : k \in FetchKinds \ {"ok"}}

StartQuery ==
    /\ call.pc = "idle"
    /\ CacheHit("ledger") \/ Len(exchanges) + 2 <= MaxExchanges
    /\ \E partyId \in Parties, template \in Templates :
          call' = [op |-> "queryContracts", pc |-> "offset_token", at |-> "none",
                   partyId |-> partyId, template |-> template, token |-> UNDEFINED,
                   ledgerEnd |-> [kind |-> "none", offset |-> UNDEFINED],
                   offset |-> UNDEFINED, activeAtOffset |-> UNDEFINED,
                   outcome |-> "none", error |-> "none", result |-> NULL]
    /\ UNCHANGED <<tokenCache, now, exchanges, tok, lendingVars>>

\* await getLedgerApiToken() in getLatestOffset and in queryContracts: the
\* cached token, or an exchange whose failure rejects the call.
LedgerToken ==
    /\ call.op = "queryContracts" /\ call.pc \in {"offset_token", "query_token"}
    /\ LET c == [call EXCEPT !.at = call.pc]
           next == IF call.pc = "offset_token" THEN "ledger_end" ELSE "active_contracts"
       IN  IF CacheHit("ledger")
           THEN /\ call' = [c EXCEPT !.pc = next, !.token = tokenCache["ledger"].token]
                /\ UNCHANGED <<tokenCache, exchanges>>
           ELSE \E resp \in TokenResponses(Len(exchanges) + 1) :
                  /\ exchanges' = Append(exchanges, [audience |-> "ledger", at |-> now,
                                                      response |-> resp])
                  /\ tokenCache' =
                       IF resp.kind = "ok"
                       THEN MapSet(tokenCache, "ledger",
                                   [token |-> resp.access_token,
                                    expiresAt |-> ExpiresAt(now, resp.expires_in)])
                       ELSE tokenCache
                  /\ call' = CASE resp.kind = "transport" -> Threw(c, "TransportError")
                               [] resp.kind = "status" -> Threw(c, "AuthTokenError")
                               [] OTHER -> [c EXCEPT !.pc = next, !.token = resp.access_token]
    /\ UNCHANGED <<now, tok, lendingVars>>

\* getLatestOffset after the ledger-end request settled: a rejection of
\* customFetch is not caught; a non-success answer and an answer without a
\* truthy offset give the fallback.
AfterLedgerEnd(c, resp) ==
    LET got == [c EXCEPT !.ledgerEnd = resp, !.at = "ledger_end"]
    IN  CASE resp.kind = "transport" -> Threw(got, "TransportError")
          [] resp.kind = "status" -> [got EXCEPT !.pc = "query_token", !.offset = FallbackOffset]
          [] OTHER -> [got EXCEPT !.pc = "query_token",
                                  !.offset = IF resp.offset \in {UNDEFINED, 0}
                                             THEN FallbackOffset ELSE resp.offset]

LedgerEnd ==
    /\ call.op = "queryContracts" /\ call.pc = "ledger_end"
    /\ \E resp \in LedgerEndResponses : call' = AfterLedgerEnd(call, resp)
    /\ UNCHANGED <<tokenCache, now, exchanges, tok, lendingVars>>

\* The POST to active-contracts with activeAtOffset = offset, and what
\* queryContracts makes of the answer.
ActiveContracts ==
    /\ call.op = "queryContracts" /\ call.pc = "active_contracts"
    /\ LET c == [call EXCEPT !.at = "active_contracts", !.activeAtOffset = call.offset]
       IN  \/ call' = Threw(c, "TransportError")
           \/ call' = Threw(c, "QueryError")
           \/ \E answer \in VisibleTo(IF c.template = "AssetHolding" THEN holdings ELSE locked,
                                     c.partyId) :
                 call' = Returned(c, answer)
    /\ UNCHANGED <<tokenCache, now, exchanges, tok, lendingVars>>

\* ---------------------------------------------------------------- explorer
\* getTransactionStream returns transactions.slice(0, Window).
Window == 50

\* The longest update stream the ledger answers with.
MaxStream == 52

\* fromOffset as the caller passes it: a string of digits, empty when absent.
FromOffsets == {<<>>, <<0>>, <<3>>}

\* parseInt on a string of digits.
parseInt(s) == DayOf(s)

\* Update i of the ledger's stream, as the updates endpoint serializes it: it
\* creates contract i and, after the first, consumes contract i - 1.  An
\* update carries its id as updateId or as transactionId; a stream item that
\* is not a transaction carries neither.
RawUpdate(i, isTx) ==
    [blank |-> FALSE,
     updateId |-> IF isTx /\ i % 2 = 0 THEN i ELSE UNDEFINED,
     transactionId |-> IF isTx /\ i % 2 = 1 THEN i ELSE UNDEFINED,
     offset |-> i,
     events |-> IF i = 1 THEN <<[kind |-> "CreatedEvent", contractId |-> i]>>
                ELSE <<[kind |-> CASE i % 3 = 0 -> "ArchivedEvent"
                                   [] i % 3 = 1 -> "ExercisedEvent"
                                   [] OTHER -> "bare",
                        contractId |-> i - 1],
                       [kind |-> "CreatedEvent", contractId |-> i]>>]

BlankLine == [RawUpdate(0, FALSE) EXCEPT !.blank = TRUE, !.events = <<>>]

\* The bodies a success answer of the updates endpoint may have for a stream
\* beginning after offset begin: a JSON array, or newline-delimited JSON
\* ending with an empty line; n updates in offset order, at most one of them
\* (the k-th) not a transaction.
StreamBodies(begin) ==
    {[format |-> f,
      items |-> [i \in 1..n |-> RawUpdate(begin + i, i # k)]
                    \o (IF f = "ndjson" THEN <<BlankLine>> ELSE <<>>)] :
        f \in {"array", "ndjson"}, n \in 0..MaxStream, k \in {0, 1, 2, Window}}

\* The items getTransactionStream iterates over: the parsed array, or the
\* lines that are not blank.
Decode(body) == SelectSeq(body.items, LAMBDA it : ~it.blank)

EventType(kind) ==
    CASE kind = "ExercisedEvent" -> "exercised"
      [] kind = "ArchivedEvent" -> "archived"
      [] OTHER -> "created"

Normalize(tx) ==
    [transactionId |-> IF Truthy(tx.updateId) THEN tx.updateId ELSE tx.transactionId,
     offset |-> tx.offset,
     events |-> [j \in DOMAIN tx.events |->
                    [eventType |-> EventType(tx.events[j].kind),
                     contractId |-> tx.events[j].contractId]]]

\* The transactions pushed: the items that carry an id, normalized, in order.
Transactions(items) ==
    LET kept == SelectSeq(items, LAMBDA tx : Truthy(tx.updateId) \/ Truthy(tx.transactionId))
    IN  [j \in DOMAIN kept |-> Normalize(kept[j])]

\* Array.prototype.slice(0, n).
SliceFirst(s, n) == SubSeq(s, 1, IF Len(s) < n THEN Len(s) ELSE n)

\* What getTransactionStream returns for a success body.
getTransactionStream(body) == SliceFirst(Transactions(Decode(body)), Window)

\* transactions.find(tx => tx.transactionId === transactionId): the index of
\* the first match, 0 when there is none.
FindTransaction(txs, transactionId) ==
    FirstIndex({j \in DOMAIN txs : txs[j].transactionId = transactionId})

\* Fault variant of getContractHistory: every event must be of the contract.
getContractHistory_Every(txs, contractId) ==
    SelectSeq(txs, LAMBDA tx : \A j \in DOMAIN tx.events : tx.events[j].contractId = contractId)

getContractHistory(txs, contractId) ==
    SelectSeq(txs, LAMBDA tx : \E j \in DOMAIN tx.events : tx.events[j].contractId = contractId)

\* The ids and contract ids asked for.
LookupIds == {1, 2, Window, Window + 1}

\* ExplorerService.getTransactions / getTransactionById / getContractHistory
\* is called; the latter two read the stream from offset 0.
StartExplorer ==
    /\ call.pc = "idle"
    /\ \E op \in {"getTransactions", "getTransactionById", "getContractHistory"},
          partyId \in Parties, fromOffset \in FromOffsets, id \in LookupIds :
          /\ op = "getTransactions" => id = 1
          /\ op # "getTransactions" => fromOffset = <<>>
          /\ call' = [op |-> op, pc |-> "updates", partyId |-> partyId,
                      fromOffset |-> fromOffset, id |-> id,
                      beginExclusive |-> IF fromOffset # <<>> THEN parseInt(fromOffset) ELSE 0,
                      body |-> [format |-> "none", items |-> <<>>],
                      outcome |-> "none", error |-> "none", result |-> NULL]
    /\ UNCHANGED <<tokenCache, now, exchanges, tok, lendingVars>>

\* The explorer call after the stream was read.
AfterUpdates(c, window) ==
    CASE c.op = "getTransactions" -> Returned(c, window)
      [] c.op = "getContractHistory" -> Returned(c, getContractHistory(window, c.id))
      [] OTHER -> IF FindTransaction(window, c.id) = 0 THEN Threw(c, "NotFound")
                  ELSE Returned(c, window[FindTransaction(window, c.id)])

\* The POST to the updates endpoint settles.
Updates ==
    /\ call.op \in {"getTransactions", "getTransactionById", "getContractHistory"}
    /\ call.pc = "updates"
    /\ \/ call' = Threw(call, "TransportError")
       \/ call' = Threw(call, "StreamError")
       \/ \E body \in StreamBodies(call.beginExclusive) :
             call' = AfterUpdates([call EXCEPT !.body = body], getTransactionStream(body))
    /\ UNCHANGED <<tokenCache, now, exchanges, tok, lendingVars>>

\* ---------------------------------------------- allocation specification
InitAlloc ==
    /\ \E n \in 0..MaxHoldings : \E amts \in [1..n -> 1..MaxAmount] :
          holdings = {[cid |-> i, owner |-> "alice", amount |-> amts[i]] : i \in 1..n}
    /\ nextId = MaxHoldings + 1
    /\ locked = {} /\ archived = {} /\ offers = {} /\ loans = {}
    /\ loanState = <<>> /\ offerLoans = <<>> /\ escrow = {}
    /\ ccBalance = [p \in Parties |-> <<>>]
    /\ req = [r \in ReqIds |-> Idle]
    /\ started = 0
    /\ ServiceIdle

\* Requests issued one after the other.
NoneInFlight == \A q \in ReqIds : req[q].pc = "idle"

NextAlloc ==
    \E r \in ReqIds :
        \/ NoneInFlight /\ StartLockUSDC(r)
        \/ NoneInFlight /\ StartTransferUSDC(r)
        \/ HoldingsQuery(r)
        \/ Split(r)
        \/ Lock(r)
        \/ Transfer(r)
        \/ Return(r)

SpecAlloc == InitAlloc /\ [][NextAlloc]_vars

\* ------------------------------------------------ lifecycle specification
\* The ledger and the escrow wallet outlive the service, so a run starts from
\* what earlier requests left there.  Each seed is a state the handlers below
\* reach from LedgerFresh (bob holds one USDC holding of 3, alice two Amulets
\* of 1) with no request in flight:
\*   LedgerBid   after alice's createOffer(BorrowerBid, 2, 1, D10);
\*   LedgerAsk   after bob's createOffer(LenderAsk, 2, 1, D10);
\*   LedgerLoan  after bob's acceptOffer of the offer of LedgerBid.
BobHolding == [cid |-> 1, owner |-> "bob", amount |-> 3]

BidEscrow == [id |-> 2, sender |-> "alice", receiver |-> adminPartyId, amount |-> 1,
              kind |-> "transfer-offers", status |-> "open"]

BidOffer ==
    [cid |-> 3, initiator |-> "alice", offerType |-> "BorrowerBid", lockedCCCollateral |-> 2,
     lockedUSDCPrincipal |-> NULL, loanAmount |-> 2, collateralAmount |-> 1, maturityDate |-> D10]

LedgerFresh ==
    [holdings |-> {BobHolding}, locked |-> {}, archived |-> {}, offers |-> {}, loans |-> {},
     loanState |-> <<>>, offerLoans |-> <<>>, escrow |-> {}, nextId |-> 2]

LedgerBid ==
    [LedgerFresh EXCEPT !.offers = {BidOffer}, !.offerLoans = (3 :> {}),
                        !.escrow = {BidEscrow}, !.nextId = 4]

LedgerAsk ==
    [LedgerFresh EXCEPT
        !.holdings = {[cid |-> 3, owner |-> "bob", amount |-> 1]},
        !.locked = {[cid |-> 4, owner |-> "bob", amount |-> 2, releaseTo |-> "bob"]},
        !.archived = {BobHolding, [cid |-> 2, owner |-> "bob", amount |-> 2]},
        !.offers = {[cid |-> 5, initiator |-> "bob", offerType |-> "LenderAsk",
                     lockedCCCollateral |-> NULL, lockedUSDCPrincipal |-> 4, loanAmount |-> 2,
                     collateralAmount |-> 1, maturityDate |-> D10]},
        !.offerLoans = (5 :> {}), !.nextId = 6]

LedgerLoan ==
    [LedgerFresh EXCEPT
        !.holdings = {[cid |-> 5, owner |-> "bob", amount |-> 1],
                      [cid |-> 8, owner |-> "alice", amount |-> 2]},
        !.archived = {BobHolding, [cid |-> 4, owner |-> "bob", amount |-> 2],
                      [cid |-> 6, owner |-> "bob", amount |-> 2, releaseTo |-> "alice"],
                      BidOffer},
        !.loans = {[cid |-> 7, borrower |-> "alice", lender |-> "bob",
                    ccCollateralReference |-> 2, principal |-> 2, collateralAmount |-> 1,
                    maturityDate |-> D10]},
        !.loanState = (7 :> "Active"), !.offerLoans = (3 :> {7}),
        !.escrow = {BidEscrow}, !.nextId = 9]

LedgerSeeds == {LedgerFresh, LedgerBid, LedgerAsk, LedgerLoan}

InitFrom(sd) ==
    /\ holdings = sd.holdings /\ locked = sd.locked /\ archived = sd.archived
    /\ offers = sd.offers /\ loans = sd.loans /\ loanState = sd.loanState
    /\ offerLoans = sd.offerLoans /\ escrow = sd.escrow /\ nextId = sd.nextId
    /\ ccBalance = [p \in Parties |-> IF p = "alice" THEN <<1, 1>> ELSE <<>>]
    /\ req = [r \in ReqIds |-> Idle]
    /\ started = 0
    /\ ServiceIdle

Init == \E sd \in LedgerSeeds : InitFrom(sd)

Next ==
    \/ \E r \in ReqIds :
          \/ StartCreateOffer(r)
          \/ StartAcceptOffer(r)
          \/ StartRepayLoan(r)
          \/ StartDefaultLoan(r)
          \/ HoldingsQuery(r)
          \/ Split(r)
          \/ Lock(r)
          \/ AmuletsQuery(r)
          \/ EscrowOffer(r)
          \/ CreateOffer(r)
          \/ Accept(r)
          \/ LoansQuery(r)
          \/ Repay(r)
          \/ Unlock(r)
          \/ Default(r)
          \/ Claim(r)
          \/ Return(r)
    \/ \E o \in escrow : RejectTransfer(o.id)

Spec == Init /\ [][Next]_vars

\* ---------------------------------------------------- token specification
NoTokenInFlight == \A k \in TokIds : tok[k].pc = "idle"

InitToken == LendingIdle /\ ServiceIdle

\* getAuth0Token calls issued one after the other, while time passes.
NextToken ==
    \/ \E k \in TokIds :
          \/ NoTokenInFlight /\ GetToken(k)
          \/ Exchange(k)
          \/ TokReturn(k)
    \/ Tick

SpecToken == InitToken /\ [][NextToken]_vars

\* ------------------------------------------------- balances specification
\* The contracts the ledger may hold when balances are asked for.
SomeHoldings ==
    {[cid |-> 1, owner |-> "alice", assetType |-> "USDC", amount |-> 2],
     [cid |-> 2, owner |-> "alice", assetType |-> "EURC", amount |-> 1],
     [cid |-> 3, owner |-> "bob", assetType |-> "USDC", amount |-> 1]}

SomeLocked ==
    {[cid |-> 4, owner |-> "alice", assetType |-> "USDC", amount |-> 1, releaseTo |-> "bob"],
     [cid |-> 5, owner |-> "bob", assetType |-> "USDC", amount |-> 2, releaseTo |-> "alice"]}

SomeLoans ==
    {[cid |-> 6, borrower |-> "alice", lender |-> "bob", ccCollateralReference |-> 8,
      principal |-> 2, collateralAmount |-> 1, maturityDate |-> D10],
     [cid |-> 7, borrower |-> "bob", lender |-> "alice", ccCollateralReference |-> 9,
      principal |-> 1, collateralAmount |-> 1, maturityDate |-> D10]}

InitBalances ==
    /\ holdings \in SUBSET SomeHoldings
    /\ locked \in SUBSET SomeLocked
    /\ loans \in SUBSET SomeLoans
    /\ ccBalance \in [Parties -> {<<>>, <<1, 2>>}]
    /\ archived = {} /\ offers = {} /\ loanState = <<>> /\ offerLoans = <<>>
    /\ escrow = {} /\ nextId = 10
    /\ req = [r \in ReqIds |-> Idle]
    /\ started = 0
    /\ ServiceIdle

NextBalances ==
    \/ StartBalances
    \/ \E i \in DOMAIN BalanceQueries : BalancesQuery(BalanceQueries[i])
    \/ CallReturn

SpecBalances == InitBalances /\ [][NextBalances]_vars

\* ------------------------------------------ active-contracts specification
InitQuery ==
    /\ holdings = SomeHoldings /\ locked = SomeLocked /\ loans = {}
    /\ archived = {} /\ offers = {} /\ loanState = <<>> /\ offerLoans = <<>>
    /\ escrow = {} /\ nextId = 10
    /\ ccBalance = [p \in Parties |-> <<>>]
    /\ req = [r \in ReqIds |-> Idle]
    /\ started = 0
    /\ ServiceIdle

NextQuery ==
    \/ StartQuery
    \/ LedgerToken
    \/ LedgerEnd
    \/ ActiveContracts
    \/ CallReturn
    \/ Tick

SpecQuery == InitQuery /\ [][NextQuery]_vars

\* ---------------------------------------------- native-coin specification
\* Each party's Amulets when lockAmulet is called.
InitAmulet ==
    /\ ccBalance \in [Parties -> {<<>>, <<1>>, <<1, 2>>}]
    /\ holdings = {} /\ locked = {} /\ archived = {} /\ offers = {} /\ loans = {}
    /\ loanState = <<>> /\ offerLoans = <<>> /\ escrow = {} /\ nextId = 1
    /\ req = [r \in ReqIds |-> Idle]
    /\ started = 0
    /\ ServiceIdle

NextAmulet ==
    \E r \in ReqIds :
        \/ NoneInFlight /\ StartLockAmulet(r)
        \/ AmuletsQuery(r)
        \/ EscrowOffer(r)
        \/ Return(r)

SpecAmulet == InitAmulet /\ [][NextAmulet]_vars

\* -------------------------------------------------- explorer specification
NextExplorer ==
    \/ StartExplorer
    \/ Updates
    \/ CallReturn

SpecExplorer == InitToken /\ [][NextExplorer]_vars

\* ----------------------------------------- concurrent token specification
\* getAuth0Token calls that overlap: a call may look the cache up while the
\* exchange of another is in flight.  The clock advances at these instants,
\* long enough for an entry to expire.
RaceInstants == {0, 1}

NextTokenRace ==
    \/ \E k \in TokIds :
          \/ GetToken(k)
          \/ Exchange(k)
          \/ TokReturn(k)
    \/ now \in RaceInstants /\ Tick

SpecTokenRace == InitToken /\ [][NextTokenRace]_vars

\* ---------------------------------------------------- wallet specification
\* Wallet operations issued one after the other, on the ledger of LedgerBid:
\* bob holds 3 USDC, alice two Amulets of 1 and an open transfer offer.
NextWallet ==
    \E r \in ReqIds :
        \/ NoneInFlight /\ StartWallet(r)
        \/ HoldingsQuery(r)
        \/ Split(r)
        \/ Transfer(r)
        \/ AmuletsQuery(r)
        \/ EscrowOffer(r)
        \/ WalletCall(r)
        \/ Fallback(r)
        \/ Return(r)

SpecWallet == InitFrom(LedgerBid) /\ [][NextWallet]_vars

\* ------------------------------------------------ concurrent allocation
\* lockUSDC, transferUSDC and repayLoan requests in flight together, on the
\* ledger of LedgerLoan: alice holds one holding of 2 and owes bob 2.
NextRace ==
    \E r \in ReqIds :
        \/ StartLockUSDC(r)
        \/ StartTransferUSDC(r)
        \/ StartRepayLoan(r)
        \/ HoldingsQuery(r)
        \/ Split(r)
        \/ Lock(r)
        \/ Transfer(r)
        \/ LoansQuery(r)
        \/ Repay(r)
        \/ Unlock(r)
        \/ Return(r)

SpecRace == InitFrom(LedgerLoan) /\ [][NextRace]_vars

\* ------------------------------------------------------ retries of a call
\* The caller waits for one call to end before it issues the next, and still
\* holds the error of the call that failed when it calls again.
Settled == \A q \in ReqIds : req[q].pc \in {"idle", "done"}

NextRetry ==
    \E r \in ReqIds :
        \/ Settled /\ StartCreateOffer(r)
        \/ Settled /\ StartAcceptOffer(r)
        \/ Settled /\ StartLockUSDC(r)
        \/ HoldingsQuery(r)
        \/ Split(r)
        \/ Lock(r)
        \/ AmuletsQuery(r)
        \/ EscrowOffer(r)
        \/ CreateOffer(r)
        \/ Accept(r)
        \/ Return(r)

SpecRetry == Init /\ [][NextRetry]_vars

\* ------------------------------------------------ conservation of amounts
\* lockUSDC, transferUSDC and repayLoan requests in flight together, on a
\* ledger where alice owes bob 2 and holds one holding of 3, so that every
\* one of her requests of 1 or 2 splits it.
LedgerOwing ==
    [LedgerLoan EXCEPT !.holdings = {[cid |-> 5, owner |-> "bob", amount |-> 1],
                                     [cid |-> 8, owner |-> "alice", amount |-> 3]}]

SpecConserve == InitFrom(LedgerOwing) /\ [][NextRace]_vars

\* ----------------------------------------------- escrow-token specification
\* lockAmulet and transferCC calls issued one after the other, with and
\* without a user token, while time passes.
NextFetch ==
    \/ \E r \in ReqIds :
          \/ NoneInFlight /\ StartLockAmuletWith(r)
          \/ AmuletsQuery(r)
          \/ WalletToken(r)
          \/ EscrowOffer(r)
          \/ Return(r)
    \/ Tick

\* alice has Amulets of 1 and 2, bob has none.
InitFetch ==
    /\ ccBalance = [p \in Parties |-> IF p = "alice" THEN <<1, 2>> ELSE <<>>]
    /\ holdings = {} /\ locked = {} /\ archived = {} /\ offers = {} /\ loans = {}
    /\ loanState = <<>> /\ offerLoans = <<>> /\ escrow = {} /\ nextId = 1
    /\ req = [r \in ReqIds |-> Idle]
    /\ started = 0
    /\ ServiceIdle

SpecFetch == InitFetch /\ [][NextFetch]_vars

\* ------------------------------------------------ accept specification
\* acceptOffer requests with the offer object of the request body, on the
\* ledgers of LedgerBid and LedgerAsk.
NextAccept ==
    \E r \in ReqIds :
        \/ NoneInFlight /\ StartAcceptOfferWith(r)
        \/ HoldingsQuery(r)
        \/ Split(r)
        \/ Lock(r)
        \/ AmuletsQuery(r)
        \/ EscrowOffer(r)
        \/ Accept(r)
        \/ Return(r)

SpecAccept == (\E sd \in {LedgerBid, LedgerAsk} : InitFrom(sd)) /\ [][NextAccept]_vars

\* ------------------------------------------------------------- lifecycle
\* The step appends a command of the given choice that the ledger / escrow
\* wallet accepted to the commands of the request in slot r.
Accepted(r, choice) ==
    /\ Len(req'[r].cmds) = Len(req[r].cmds) + 1
    /\ req'[r].cmds[Len(req'[r].cmds)].choice = choice
    /\ req'[r].cmds[Len(req'[r].cmds)].ok

\* The request s has had a command of the given choice accepted.
HasAccepted(s, choice) ==
    \E i \in DOMAIN s.cmds : s.cmds[i].choice = choice /\ s.cmds[i].ok

\* The last command / escrow request of s was of the given choice and failed.
LastFailed(s, choice) ==
    /\ s.cmds # <<>>
    /\ s.cmds[Len(s.cmds)].choice = choice
    /\ ~s.cmds[Len(s.cmds)].ok

\* C1 (as claimed): every offer create-command createOffer submits has
\* exactly one lock reference populated, keyed by the offer type: a
\* BorrowerBid carries a lockedCCCollateral reference and a null
\* lockedUSDCPrincipal, a LenderAsk the reverse, whatever the escrow wallet
\* and the ledger answered to the lock step.
C1_ExactlyOneLockPopulated ==
    \A r \in ReqIds : \A i \in DOMAIN req[r].cmds :
        LET c == req[r].cmds[i]
        IN  (req[r].op = "createOffer" /\ c.choice = "Create") =>
                IF c.arg.offerType = "BorrowerBid"
                THEN Truthy(c.arg.lockedCCCollateral) /\ c.arg.lockedUSDCPrincipal = NULL
                ELSE Truthy(c.arg.lockedUSDCPrincipal) /\ c.arg.lockedCCCollateral = NULL

\* The active loan contracts are exactly the loans in state Active.
ActiveIffOnLedger ==
    /\ \A l \in loans : l.cid \in DOMAIN loanState /\ loanState[l.cid] = "Active"
    /\ \A id \in DOMAIN loanState : loanState[id] = "Active" => \E l \in loans : l.cid = id

\* One step of the lifecycle: a loan appears as Active, it leaves Active only
\* for Repaid (by an accepted RepayHybrid of a repayLoan request) or Defaulted
\* (by an accepted ClaimDefaultHybrid of a defaultLoan request), a terminal
\* state never changes, and the ledger accepts a repay or default exercise
\* only on a loan that is Active.
LifecycleStep ==
    /\ \A id \in DOMAIN loanState' \ DOMAIN loanState : loanState'[id] = "Active"
    /\ \A id \in DOMAIN loanState :
          /\ id \in DOMAIN loanState'
          /\ loanState[id] \in {"Repaid", "Defaulted"} => loanState'[id] = loanState[id]
          /\ loanState'[id] # loanState[id] =>
                \/ /\ loanState'[id] = "Repaid"
                   /\ \E r \in ReqIds : /\ req[r].op = "repayLoan" /\ req[r].target = id
                                        /\ Accepted(r, "RepayHybrid")
                \/ /\ loanState'[id] = "Defaulted"
                   /\ \E r \in ReqIds : /\ req[r].op = "defaultLoan" /\ req[r].target = id
                                        /\ Accepted(r, "ClaimDefaultHybrid")
    /\ \A r \in ReqIds :
          /\ Accepted(r, "RepayHybrid") =>
                loanState[req[r].target] = "Active" /\ loanState'[req[r].target] = "Repaid"
          /\ Accepted(r, "ClaimDefaultHybrid") =>
                loanState[req[r].target] = "Active" /\ loanState'[req[r].target] = "Defaulted"

\* C2: under every interleaving of createOffer, acceptOffer, repay and
\* claimDefault requests a loan moves only Active -> Repaid or
\* Active -> Defaulted; Repaid and Defaulted are terminal (no later repay or
\* default exercise on the loan is accepted by the ledger), so no loan is
\* ever both Repaid and Defaulted.
C2_LoanLifecycle == []ActiveIffOnLedger /\ [][LifecycleStep]_vars

\* A default claim that reached the ledger with a valid date lost against a
\* repay of the same loan.
C2_Witness ==
    \E r \in ReqIds :
        /\ req[r].op = "defaultLoan" /\ req[r].claimDate = D11
        /\ LastFailed(req[r], "ClaimDefaultHybrid")
        /\ loanState[req[r].target] = "Repaid"

\* C3: an active loan appears only in a step in which the ledger accepts the
\* AcceptHybrid of an acceptOffer request on an offer that is active
\* (Offered); that step archives the offer, and no offer is ever converted
\* into more than one loan, also with two acceptOffer requests in flight on
\* the same offer.
C3_LoanOnlyFromOffer ==
    /\ [](\A o \in DOMAIN offerLoans : Cardinality(offerLoans[o]) <= 1)
    /\ [][\A l \in loans' \ loans :
             \E r \in ReqIds, o \in offers :
                 /\ req[r].op = "acceptOffer" /\ req[r].target = o.cid
                 /\ Accepted(r, "AcceptHybrid")
                 /\ req'[r].outcome = "returned"
                 /\ o \notin offers'
                 /\ offerLoans[o.cid] = {} /\ offerLoans'[o.cid] = {l.cid}]_vars

\* Two acceptOffer requests on the same offer: one was accepted, the other
\* rejected by the ledger.
C3_Witness ==
    \E r1, r2 \in ReqIds :
        /\ r1 # r2
        /\ req[r1].op = "acceptOffer" /\ req[r2].op = "acceptOffer"
        /\ req[r1].target = req[r2].target
        /\ HasAccepted(req[r1], "AcceptHybrid") /\ req[r1].outcome = "returned"
        /\ LastFailed(req[r2], "AcceptHybrid")
        /\ Cardinality(offerLoans[req[r1].target]) = 1

\* C4 (as claimed): whenever claimDefault found the loan and its claim date
\* (the override, else today) is a day before the loan's maturity date, the
\* request fails with a validation error and has sent no ledger command and
\* no escrow request.
C4_EarlyClaimIsValidationError ==
    \A r \in ReqIds :
        LET s == req[r]
        IN  (/\ s.op = "defaultLoan" /\ s.loan.cid # NULL
             /\ DayOf(s.claimDate) < DayOf(s.loan.maturityDate)) =>
                /\ s.pc = "done" /\ s.outcome = "threw" /\ s.error = "ValidationError"
                /\ s.cmds = <<>>

\* C5: once the ledger accepted the ClaimDefaultHybrid of a claimDefault
\* request (its claim date is not before the maturity date), the request
\* only has the escrow claim left, it ends by returning the ledger's result
\* whether the escrow wallet accepts or fails the claim, and the loan is and
\* stays Defaulted.
C5_DefaultReturnsLedgerResult ==
    \A r \in ReqIds :
        LET s == req[r]
        IN  (s.op = "defaultLoan" /\ HasAccepted(s, "ClaimDefaultHybrid")) =>
                /\ ~LexLess(s.claimDate, s.loan.maturityDate)
                /\ s.pc \in {"claim", "done"}
                /\ Truthy(s.ledgerResult)
                /\ s.pc = "done" => /\ s.outcome = "returned" /\ s.error = "none"
                                    /\ s.result = s.ledgerResult
                /\ loanState[s.target] = "Defaulted"

C5_Witness ==
    \E r \in ReqIds :
        /\ req[r].op = "defaultLoan" /\ HasAccepted(req[r], "ClaimDefaultHybrid")
        /\ LastFailed(req[r], "accept")
        /\ req[r].pc = "done" /\ req[r].outcome = "returned"

\* C6: once the ledger accepted the RepayHybrid of a repay request, the
\* request only has the collateral unlock left, it ends by returning the
\* ledger's result whether the escrow wallet performs or fails the withdraw
\* (it fails when the offer was withdrawn by someone else before), and the
\* loan is and stays Repaid.
C6_RepayReturnsLedgerResult ==
    \A r \in ReqIds :
        LET s == req[r]
        IN  (s.op = "repayLoan" /\ HasAccepted(s, "RepayHybrid")) =>
                /\ s.pc \in {"unlock", "done"}
                /\ Truthy(s.ledgerResult)
                /\ s.pc = "done" => /\ s.outcome = "returned" /\ s.error = "none"
                                    /\ s.result = s.ledgerResult
                /\ loanState[s.target] = "Repaid"

\* The repay returned although its unlock failed on an escrow offer that an
\* external rejectTransfer had withdrawn.
C6_Witness ==
    \E r \in ReqIds : \E o \in escrow :
        /\ req[r].op = "repayLoan" /\ HasAccepted(req[r], "RepayHybrid")
        /\ LastFailed(req[r], "withdraw")
        /\ req[r].pc = "done" /\ req[r].outcome = "returned"
        /\ o.id = req[r].loan.ccCollateralReference /\ o.status = "withdrawn"

\* ------------------------------------------------------------ allocation
AllocOps == {"lockUSDC", "transferUSDC"}

Decided(s) == s.pc \notin {"idle", "holdings_query"} /\ s.error # "QueryError"

HasCmd(s, choice) == \E i \in DOMAIN s.cmds : s.cmds[i].choice = choice

HasExact(s) == \E i \in DOMAIN s.usdcHoldings : s.usdcHoldings[i].amount = s.amount

Sufficient(s) == {i \in DOMAIN s.usdcHoldings : s.usdcHoldings[i].amount >= s.amount}

\* C7: when the queried holdings include one of exactly the requested amount,
\* lockUSDC / transferUSDC use such a holding directly: no Split is chosen or
\* submitted, and the holding handed to Lock / Transfer is an exact-amount
\* holding of the query result.
C7_ExactMatchNoSplit ==
    \A r \in ReqIds :
        LET s == req[r]
        IN  (s.op \in AllocOps /\ Decided(s) /\ HasExact(s)) =>
                /\ s.pc # "split"
                /\ ~HasCmd(s, "Split")
                /\ s.error \notin {"InsufficientBalance", "NoHoldings"}
                /\ \E i \in DOMAIN s.usdcHoldings :
                      /\ s.usdcHoldings[i].cid = s.holdingCid
                      /\ s.usdcHoldings[i].amount = s.amount
                /\ \A i \in DOMAIN s.cmds :
                      s.cmds[i].choice \in {"Lock", "Transfer"} => s.cmds[i].cid = s.holdingCid

C7_Witness ==
    \E r \in ReqIds :
        /\ req[r].op \in AllocOps /\ req[r].pc = "done" /\ req[r].outcome = "returned"
        /\ HasExact(req[r]) /\ Len(req[r].usdcHoldings) >= 2
        /\ req[r].usdcHoldings[1].amount > req[r].amount

\* C8 (as claimed): the holding chosen for the Split has the smallest amount
\* among the queried holdings whose amount is >= the requested amount.
C8_SplitsSmallestSufficient ==
    \A r \in ReqIds :
        LET s == req[r]
        IN  (s.op \in AllocOps /\ s.pc = "split") =>
                \E i \in Sufficient(s) :
                    /\ s.usdcHoldings[i].cid = s.largeEnough
                    /\ \A j \in Sufficient(s) : s.usdcHoldings[i].amount <= s.usdcHoldings[j].amount

\* The request in slot r has just had a Split accepted by the ledger.
SplitAccepted(r) ==
    /\ req[r].pc = "split"
    /\ Len(req'[r].cmds) = Len(req[r].cmds) + 1
    /\ req'[r].cmds[Len(req'[r].cmds)].ok

C10_InsufficientOnlyBelowSum ==
    \A r \in ReqIds :
        LET s == req[r]
        IN  (s.op \in AllocOps /\ s.error = "InsufficientBalance") =>
                /\ s.have < s.need
                /\ s.cmds = <<>>

\* ------------------------------------------------------------ token cache
\* The call in slot k looks up the cache in this step.
Looked(k) == tok[k].pc = "idle" /\ tok'[k].pc # "idle"

\* The exchange of the log from which the token the cache holds for the
\* audience stems.
CachedFrom(audience) ==
    {i \in DOMAIN exchanges :
        /\ exchanges[i].audience = audience /\ exchanges[i].response.kind = "ok"
        /\ exchanges[i].response.access_token = tokenCache[audience].token
        /\ \A j \in DOMAIN exchanges :
              (j > i /\ exchanges[j].audience = audience) => exchanges[j].response.kind # "ok"}

\* One step of sequential getToken calls: the lookup goes on to an exchange
\* exactly when the audience has no entry or now >= expiresAt, and otherwise
\* returns the cached token and leaves cache and exchange log alone; only a
\* call that missed the cache performs an exchange, and a successful exchange
\* caches the new token with expiresAt = now + (expires_in - 60 s).
TokenStep ==
    /\ (exchanges' # exchanges \/ tokenCache' # tokenCache) =>
          \E k \in TokIds : tok[k].pc = "exchange" /\ tok'[k].pc = "done"
    /\ \A k \in TokIds :
        /\ Looked(k) =>
              LET a == tok'[k].audience
                  miss == a \notin DOMAIN tokenCache \/ now >= tokenCache[a].expiresAt
              IN  /\ (tok'[k].pc = "exchange") <=> miss
                  /\ ~miss => /\ tok'[k].pc = "done" /\ tok'[k].outcome = "returned"
                              /\ tok'[k].result = tokenCache[a].token
                              /\ UNCHANGED <<tokenCache, exchanges>>
        /\ (tok[k].pc = "exchange" /\ tok'[k].pc = "done") =>
              LET a == tok[k].audience
                  resp == tok'[k].response
              IN  /\ exchanges' = Append(exchanges, [audience |-> a, at |-> now,
                                                     response |-> resp])
                  /\ resp.kind = "ok" =>
                        /\ tokenCache'[a].token = resp.access_token
                        /\ tokenCache'[a].expiresAt = now + resp.expires_in - TokenMarginTicks
                        /\ tok'[k].result = resp.access_token

\* C12: for sequential getToken calls an exchange is performed exactly when
\* the audience has no cached entry or now >= expiresAt, where expiresAt is
\* the time of the exchange plus (expires_in - 60 s); otherwise the cached
\* token is returned unchanged without an exchange, so a cached token is
\* never served in the last 60 s before its declared expiry.
C12_TokenCache ==
    [][/\ TokenStep
       /\ \A k \in TokIds :
             (Looked(k) /\ tok'[k].fromCache) =>
                 \E i \in CachedFrom(tok'[k].audience) :
                     /\ tok'[k].result = exchanges[i].response.access_token
                     /\ now < exchanges[i].at + exchanges[i].response.expires_in
                                - TokenMarginTicks]_vars

\* A token is served from the cache some time after a second exchange for the
\* audience replaced an expired entry.
C12_Witness ==
    \E k \in TokIds :
        /\ tok[k].pc = "done" /\ tok[k].fromCache /\ tok[k].result # UNDEFINED
        /\ Len(exchanges) = 2
        /\ exchanges[1].audience = tok[k].audience /\ exchanges[2].audience = tok[k].audience
        /\ exchanges[1].response.kind = "ok" /\ exchanges[2].response.kind = "ok"
        /\ exchanges[2].at >= ExpiresAt(exchanges[1].at, exchanges[1].response.expires_in)
        /\ now > exchanges[2].at

\* C13 (as claimed): a getToken call whose exchange was answered with a
\* non-success status, or with success but without access_token, fails with
\* an auth-token error and returns nothing to its caller.
C13_NoTokenIsAuthError ==
    \A k \in TokIds :
        LET s == tok[k]
        IN  (/\ s.pc = "done" /\ ~s.fromCache
             /\ \/ s.response.kind = "status"
                \/ s.response.kind = "ok" /\ s.response.access_token = UNDEFINED) =>
                /\ s.outcome = "threw" /\ s.error = "AuthTokenError"


\* ---------------------------------------------------------------- balances
BalancesDone == call.op = "balances" /\ call.pc = "done" /\ call.outcome = "returned"

\* C11: every TokenBalance that balances(partyId) returns has
\* available + locked = total, for usdc and for cc, whatever holdings, locked
\* holdings and loans the ledger returned; total is the party's USDC on the
\* ledger, unlocked plus locked, and the borrowed principal is not in it.
C11_AvailablePlusLockedIsTotal ==
    BalancesDone =>
        LET b == call.result
        IN  /\ b.usdc.available + b.usdc.locked = b.usdc.total
            /\ b.cc.available + b.cc.locked = b.cc.total
            /\ b.usdc.total = SumAmounts(UsdcOf(holdings, call.partyId))
                              + SumAmounts(UsdcOf(locked, call.partyId))
            /\ b.usdc.borrowed =
                 SumPrincipal({l \in loans : l.borrower = call.partyId})
            /\ b.cc.available = SumSeq(ccBalance[call.partyId])
            /\ b.cc.borrowed = 0

\* balances returned for a party with unlocked and locked USDC, a loan it
\* borrowed, and contracts of other owners and other assets in the answers.
C11_Witness ==
    /\ BalancesDone
    /\ call.result.usdc.available > 0 /\ call.result.usdc.locked > 0
    /\ call.result.usdc.borrowed > 0
    /\ call.result.cc.available > 0 /\ call.result.cc.locked > 0
    /\ \E h \in call.holdings : h.owner # call.partyId
    /\ \E h \in call.holdings : h.assetType # "USDC"
    /\ \E l \in call.activeLoans : l.borrower # call.partyId


\* -------------------------------------------------------- active contracts
\* C14 (as claimed): when the ledger-end request fails, with a non-success
\* answer or at transport level, currentOffset returns the fallback offset
\* and the active-contracts query goes on with it: the call never ends at the
\* ledger-end step.
C14_OffsetFallsBack ==
    (call.op = "queryContracts" /\ call.ledgerEnd.kind \in {"status", "transport"}) =>
        /\ call.offset = FallbackOffset
        /\ ~(call.pc = "done" /\ call.at = "ledger_end")
        /\ call.activeAtOffset \in {UNDEFINED, FallbackOffset}


\* ------------------------------------------------------------------ submit
\* Request r's handler has just had a submitCommand answered.
Submitted(r) ==
    /\ Len(req'[r].cmds) = Len(req[r].cmds) + 1
    /\ req'[r].cmds[Len(req'[r].cmds)].api = "ledger"

SubmitStep ==
    \A r \in ReqIds : Submitted(r) =>
        LET s == req'[r]
            c == s.cmds[Len(s.cmds)]
        IN  IF c.ok
            THEN /\ ~(s.outcome = "threw" /\ s.error = "LedgerCommandError")
                 /\ s.cause = NoAnswer
                 /\ ledgerVars' # ledgerVars
            ELSE /\ s.pc = "done" /\ s.outcome = "threw" /\ s.error = "LedgerCommandError"
                 /\ c.answer \in FailedAnswers /\ s.cause = c.answer
                 /\ ledgerVars' = ledgerVars /\ nextId' = nextId

\* C15: submit gives its caller a result only on a success answer; on a
\* non-success answer the handler ends with a ledger command error carrying
\* the answer's status and body, and the ledger is as it was before the
\* submission; a handler that returned had every submission answered with
\* success.
C15_SubmitFailsWithoutEffect ==
    /\ [][SubmitStep]_vars
    /\ [](\A r \in ReqIds :
            /\ req[r].error = "LedgerCommandError" <=>
                  (req[r].cmds # <<>> /\ req[r].cmds[Len(req[r].cmds)].api = "ledger"
                     /\ ~req[r].cmds[Len(req[r].cmds)].ok)
            /\ req[r].outcome = "returned" =>
                  \A i \in DOMAIN req[r].cmds :
                      req[r].cmds[i].api = "ledger" => req[r].cmds[i].ok)

\* A submission was rejected after an earlier one of the same handler had
\* taken effect, and another one was rejected with a different status.
C15_Witness ==
    \E r, q \in ReqIds :
        /\ req[r].error = "LedgerCommandError" /\ Len(req[r].cmds) > 1
        /\ req[r].cmds[1].api = "ledger" /\ req[r].cmds[1].ok
        /\ req[q].error = "LedgerCommandError" /\ req[q].cause.status # req[r].cause.status


\* ------------------------------------------------------------- native coin
PreFlightFailed(s) == s.error \in {"NoAmulets", "InsufficientBalance"}

\* The party of s cannot cover the amount with its unlocked native coin.
Uncovered(s) == SumSeq(ccBalance[s.partyId]) < s.amount

\* C16: lockNativeCoin sends the escrow create-offer request only after the
\* balance check passed: when the party's unlocked native coin sums to less
\* than the amount (none at all included) it fails before any escrow request
\* is sent and no escrow offer is created.
C16_BalanceCheckedBeforeEscrow ==
    /\ [](\A r \in ReqIds : req[r].op = "lockAmulet" =>
            /\ (Uncovered(req[r]) /\ req[r].pc # "amulets_query" /\ req[r].error # "QueryError")
                  => (req[r].pc = "done" /\ PreFlightFailed(req[r]))
            /\ PreFlightFailed(req[r]) => (Uncovered(req[r]) /\ req[r].cmds = <<>>)
            /\ req[r].cmds # <<>> => ~Uncovered(req[r]))
    /\ [](\A o \in escrow : o.amount <= SumSeq(ccBalance[o.sender]))
    /\ [][\A r \in ReqIds : PreFlightFailed(req'[r]) => escrow' = escrow]_vars

\* A lock of more than the party's Amulets sum to failed pre-flight, after a
\* lock of exactly a party's balance had created its escrow offer.
C16_Witness ==
    \E r \in ReqIds :
        /\ req[r].op = "lockAmulet" /\ req[r].error = "InsufficientBalance"
        /\ req[r].have > 0 /\ req[r].have < req[r].need
        /\ started = MaxOps
        /\ \E o \in escrow : o.amount = SumSeq(ccBalance[o.sender])


\* ---------------------------------------------------------------- explorer
\* The transactions of the stream the ledger answered the call with, in
\* stream order.
Streamed == Transactions(Decode(call.body))

ExplorerReturned(op) == call.op = op /\ call.pc = "done" /\ call.outcome = "returned"

\* The last n elements of s.
LastOf(s, n) == SubSeq(s, IF Len(s) < n THEN 1 ELSE Len(s) - n + 1, Len(s))

\* C17 (as claimed): stream returns at most 50 transactions in stream order,
\* and of a stream of more than 50 transactions it returns the 50 most recent.
C17_FiftyMostRecent ==
    ExplorerReturned("getTransactions") =>
        /\ Len(call.result) <= Window
        /\ call.result = LastOf(Streamed, Window)


\* The window stream(partyId) returns from offset 0 for the stream the call
\* was answered with: its first Window transactions.
WindowOf == SubSeq(Streamed, 1, IF Len(Streamed) < Window THEN Len(Streamed) ELSE Window)

InWindow(tx) == \E j \in DOMAIN WindowOf : WindowOf[j] = tx

HasContract(tx, contractId) == \E j \in DOMAIN tx.events : tx.events[j].contractId = contractId

\* C18: byId and contractHistory filter the window that stream(partyId)
\* returns from offset 0.  byId returns the first transaction of the window
\* with the id and fails with not-found exactly when the window has none;
\* contractHistory returns the window's transactions with an event of the
\* contract, in window order; nothing outside the window is returned.
C18_FiltersOfTheWindow ==
    /\ call.op \in {"getTransactionById", "getContractHistory"} => call.beginExclusive = 0
    /\ ExplorerReturned("getTransactionById") =>
          /\ InWindow(call.result)
          /\ call.result.transactionId = call.id
          /\ \A j \in DOMAIN WindowOf :
                WindowOf[j].transactionId = call.id =>
                    \A i \in 1..j : WindowOf[i].transactionId = call.id => WindowOf[i] = call.result
    /\ (call.op = "getTransactionById" /\ call.pc = "done" /\ call.error = "NotFound") =>
          /\ call.body.format # "none"
          /\ \A j \in DOMAIN WindowOf : WindowOf[j].transactionId # call.id
    /\ (call.op = "getTransactionById" /\ call.pc = "done" /\ call.body.format # "none"
            /\ \A j \in DOMAIN WindowOf : WindowOf[j].transactionId # call.id) =>
          call.error = "NotFound"
    /\ ExplorerReturned("getContractHistory") =>
          /\ \A j \in DOMAIN call.result :
                InWindow(call.result[j]) /\ HasContract(call.result[j], call.id)
          /\ \A j \in DOMAIN WindowOf :
                HasContract(WindowOf[j], call.id) =>
                    \E i \in DOMAIN call.result : call.result[i] = WindowOf[j]
          /\ \A i, j \in DOMAIN call.result :
                i < j => call.result[i].offset < call.result[j].offset

\* byId failed with not-found for a transaction that is in the stream, beyond
\* the window.
C18_Witness ==
    /\ call.op = "getTransactionById" /\ call.pc = "done" /\ call.error = "NotFound"
    /\ \E j \in DOMAIN Streamed : j > Window /\ Streamed[j].transactionId = call.id


\* ------------------------------------------------------------ accept offer
\* C19 (as claimed): the accept exercise acceptOffer submits carries exactly
\* one acceptor reference, keyed by the offer type - the locked USDC of
\* loanAmount for a BorrowerBid, the escrow reference of collateralAmount for
\* a LenderAsk - and is authorized by initiator, acceptor and custodian.
C19_AcceptSuppliesOneSide ==
    \A r \in ReqIds : \A i \in DOMAIN req[r].cmds :
        LET s == req[r]
            c == s.cmds[i]
        IN  (s.op = "acceptOffer" /\ c.choice = "AcceptHybrid") =>
                /\ c.actAs = {s.initiator, s.partyId, adminPartyId}
                /\ i > 1
                /\ IF s.offerType = "BorrowerBid"
                   THEN /\ Truthy(c.arg.acceptorUSDCCid) /\ c.arg.acceptorCCReference = NULL
                        /\ s.cmds[i - 1].choice = "Lock" /\ s.holdingAmount = s.loanAmount
                   ELSE /\ Truthy(c.arg.acceptorCCReference) /\ c.arg.acceptorUSDCCid = NULL
                        /\ s.cmds[i - 1].choice = "transfer-offers"
                        /\ s.cmds[i - 1].arg.amount = s.collateralAmount


\* ------------------------------------------------------------------- repay
\* C20 (as claimed): every repay exercise that repay submits is authorized by
\* the loan's borrower and by its lender, whichever party of the loan calls.
C20_RepayActsAsBorrowerAndLender ==
    \A r \in ReqIds : \A i \in DOMAIN req[r].cmds :
        LET s == req[r]
            c == s.cmds[i]
        IN  (s.op = "repayLoan" /\ c.choice = "RepayHybrid") =>
                {s.loan.borrower, s.loan.lender} \subseteq c.actAs

\* ----------------------------------------------------------- claim default
\* C21 (as claimed): every default exercise that claimDefault submits is
\* authorized by the loan's lender and by its borrower, and the escrow accept
\* that follows is made for the loan's lender, whichever party of the loan
\* calls.
C21_DefaultActsAsLenderAndBorrower ==
    \A r \in ReqIds : \A i \in DOMAIN req[r].cmds :
        LET s == req[r]
            c == s.cmds[i]
        IN  s.op = "defaultLoan" =>
                /\ c.choice = "ClaimDefaultHybrid" =>
                      {s.loan.lender, s.loan.borrower} \subseteq c.actAs
                /\ c.choice = "accept" => c.actAs = {s.loan.lender}

\* ------------------------------------------------- concurrent token calls
\* The successful exchanges of the log for the audience, by position.
Issued(audience) ==
    {i \in DOMAIN exchanges :
        exchanges[i].audience = audience /\ exchanges[i].response.kind = "ok"}

\* The exchange for the audience that finished last.
LastIssued(audience) == CHOOSE i \in Issued(audience) : \A j \in Issued(audience) : j <= i

Invalid(s) ==
    /\ s.op \in WalletOps
    /\ \/ s.partyId = NoParty
       \/ s.op \in {"transferUSDC", "transferCC"} /\ s.partyId = s.recipient

\* C24: a transfer to the sender's own party, and any wallet operation of a
\* user without a linked party, ends at once with a validation error: the
\* request never reaches a query, a ledger command or an escrow request, and
\* ledger and escrow stay as they are.
C24_InvalidWalletRequestFailsFirst ==
    /\ [](\A r \in ReqIds :
            /\ Invalid(req[r]) =>
                  /\ req[r].pc = "done" /\ req[r].outcome = "threw"
                  /\ req[r].error = "ValidationError"
                  /\ req[r].cmds = <<>> /\ req[r].usdcHoldings = <<>>
            /\ (req[r].op \in WalletOps /\ req[r].error = "ValidationError") => Invalid(req[r]))
    /\ [][\A r \in ReqIds :
            (req[r].pc = "idle" /\ Invalid(req'[r])) =>
                (ledgerVars' = ledgerVars /\ escrow' = escrow)]_vars

\* A USDC transfer of a party to itself was refused although the party holds
\* a holding of the amount.
C24_Witness ==
    \E r \in ReqIds :
        /\ req[r].op = "transferUSDC" /\ req[r].partyId = req[r].recipient
        /\ req[r].error = "ValidationError"
        /\ \E h \in holdings : h.owner = req[r].partyId /\ h.amount = req[r].amount

\* ------------------------------------------------- concurrent allocation
\* The command c is an exercise that consumes a holding.
Consuming(c) ==
    c.api = "ledger" /\ c.choice \in {"Split", "Lock", "Transfer", "RepayHybrid"}

\* The holding the exercise c consumes.
Consumed(c) == IF c.choice = "RepayHybrid" THEN c.arg.repaymentHoldingCid ELSE c.cid

ActiveCids == {h.cid : h \in holdings}

\* C23: no holding is consumed twice.  A Split, Lock, Transfer or repay
\* exercise succeeds only on a holding that is active, and archives it for
\* good; an exercise on a holding another request already consumed fails and
\* its request ends with a ledger command error; so of the requests in
\* flight at most one has a successful exercise on any one holding.
C23_HoldingConsumedOnce ==
    /\ [](\A h \in archived : h.cid \notin ActiveCids)
    /\ [](\A r, q \in ReqIds : \A i \in DOMAIN req[r].cmds, j \in DOMAIN req[q].cmds :
            LET c == req[r].cmds[i]
                d == req[q].cmds[j]
            IN  (/\ <<r, i>> # <<q, j>>
                 /\ Consuming(c) /\ Consuming(d) /\ c.ok /\ d.ok) => Consumed(c) # Consumed(d))
    /\ [][\A r \in ReqIds :
            Len(req'[r].cmds) = Len(req[r].cmds) + 1 =>
                LET c == req'[r].cmds[Len(req'[r].cmds)]
                IN  Consuming(c) =>
                       /\ c.ok => /\ Consumed(c) \in ActiveCids
                                  /\ Consumed(c) \notin ActiveCids'
                                  /\ \E h \in archived' : h.cid = Consumed(c)
                       /\ Consumed(c) \notin ActiveCids =>
                              /\ ~c.ok
                              /\ req'[r].pc = "done" /\ req'[r].outcome = "threw"
                              /\ req'[r].error = "LedgerCommandError"
                              /\ holdings' = holdings /\ locked' = locked]_vars

\* Two requests of one party selected the same holding; the exercise of one
\* succeeded and the other's, sent after the holding was archived, failed
\* and ended its request with a ledger command error.
C23_Witness ==
    \E r, q \in ReqIds :
        /\ r # q /\ req[r].partyId = req[q].partyId
        /\ req[r].cmds # <<>> /\ req[q].cmds # <<>>
        /\ LET c == req[r].cmds[1]
               d == req[q].cmds[Len(req[q].cmds)]
           IN  /\ Consuming(c) /\ Consuming(d) /\ c.choice # d.choice
               /\ Consumed(c) = Consumed(d)
               /\ c.ok /\ ~d.ok
               /\ Len(req[q].cmds) = 1
               /\ req[q].pc = "done" /\ req[q].error = "LedgerCommandError"

\* -------------------------------------------------- failures and retries
\* The failed request c of s is one of the two best-effort steps: the
\* withdraw after repay or the accept after default.
BestEffort(s, c) ==
    /\ c.api = "escrow"
    /\ \/ s.op = "repayLoan" /\ c.choice = "withdraw"
       \/ s.op = "defaultLoan" /\ c.choice = "accept"

\* C25 (as claimed): a command or request that failed is the last one its
\* operation sends, nothing is sent again after it, and the operation ends
\* by raising the failure, unless the failed request is the unlock after
\* repay or the claim after default.
C25_NoRetryEveryFailureRaised ==
    \A r \in ReqIds : \A i \in DOMAIN req[r].cmds :
        LET s == req[r]
            c == s.cmds[i]
        IN  ~c.ok =>
               /\ i = Len(s.cmds)
               /\ s.pc = "done"
               /\ s.outcome = "threw" \/ BestEffort(s, c)

\* ------------------------------------------------------ locks of an offer
\* The request s is a createOffer of the given type.
Creates(s, offerType) == s.op = "createOffer" /\ s.offerType = offerType

\* C26: the lock createOffer takes.  For a BorrowerBid the only lock is one
\* escrow offer of collateralAmount to the custodian that expires with the
\* last second of the maturity date, and what the escrow wallet holds for it
\* is that amount for that receiver; for a LenderAsk the only lock is a Lock
\* exercise with releaseTo the initiator, and the locked holding it creates
\* is of loanAmount, owned by and released to the initiator.
C26_OfferLockParameters ==
    /\ [](\A r \in ReqIds : \A i \in DOMAIN req[r].cmds :
            LET s == req[r]
                c == s.cmds[i]
            IN  /\ (Creates(s, "BorrowerBid") /\ c.choice # "Create") =>
                       /\ i = 1
                       /\ c.api = "escrow" /\ c.choice = "transfer-offers"
                       /\ c.arg.amount = s.collateralAmount
                       /\ c.arg.receiver_party_id = adminPartyId
                       /\ c.arg.expires_at = <<(DayOf(s.maturityDate) + 1) * 86400 - 1, 0>>
                /\ (Creates(s, "LenderAsk") /\ c.choice \notin {"Create", "Split"}) =>
                       /\ c.api = "ledger" /\ c.choice = "Lock"
                       /\ c.arg.releaseTo = s.partyId
                       /\ c.actAs = {s.partyId})
    /\ [][\A r \in ReqIds :
            LET s == req'[r]
            IN  (s.op = "createOffer" /\ req[r].pc \in {"escrow_offer", "lock"}
                 /\ s.pc = "create") =>
                    IF s.offerType = "BorrowerBid"
                    THEN /\ locked' = locked
                         /\ \E o \in escrow' \ escrow :
                               /\ escrow' = escrow \cup {o}
                               /\ o.sender = s.partyId /\ o.receiver = adminPartyId
                               /\ o.amount = s.collateralAmount /\ o.status = "open"
                    ELSE /\ escrow' = escrow
                         /\ \E l \in locked' \ locked :
                               /\ locked' = locked \cup {l}
                               /\ l.owner = s.partyId /\ l.releaseTo = s.partyId
                               /\ l.amount = s.loanAmount]_vars

\* Both kinds of offer were created with their lock: a BorrowerBid request
\* that sent its escrow offer and a LenderAsk request that locked the
\* principal have both reached the creation of the offer.
C26_Witness ==
    \E r, q \in ReqIds :
        /\ Creates(req[r], "BorrowerBid") /\ req[r].outcome = "returned"
        /\ Len(req[r].cmds) = 2 /\ req[r].cmds[1].ok
        /\ Creates(req[q], "LenderAsk") /\ req[q].pc = "create"
        /\ \E i \in DOMAIN req[q].cmds : req[q].cmds[i].choice = "Lock" /\ req[q].cmds[i].ok

\* ------------------------------------------------------ retries of a call
\* The reference of the lock the offer request s took: the escrow offer or
\* the locked holding.
LockRef(s) ==
    CASE s.op = "createOffer" /\ s.offerType = "BorrowerBid" -> s.lockedCCCollateral
      [] s.op = "createOffer" -> s.lockedUSDCPrincipal
      [] s.op = "acceptOffer" /\ s.offerType = "BorrowerBid" -> s.acceptorUSDCCid
      [] OTHER -> s.acceptorCCReference

\* The calls s and t are the same operation with the same arguments.
SameCall(s, t) ==
    /\ s.op = t.op /\ s.partyId = t.partyId /\ s.target = t.target
    /\ s.offerType = t.offerType /\ s.loanAmount = t.loanAmount
    /\ s.collateralAmount = t.collateralAmount /\ s.maturityDate = t.maturityDate

\* What party p had locked by locks of reference ref or later: escrow offers
\* it sent and holdings of its own it locked, consumed since or not.
LockedSince(p, ref) ==
    LET sent == {o \in escrow : o.sender = p /\ o.id >= ref}
        held == {l \in locked \cup {a \in archived : "releaseTo" \in DOMAIN a} :
                    l.owner = p /\ l.cid >= ref}
    IN  Cardinality(sent) + Cardinality(held)

\* C27 (as claimed): when createOffer or acceptOffer failed after its lock
\* was taken and the same call, made again, succeeded, the party has taken
\* one lock for the offer and not two.
C27_RetryLocksOnce ==
    \A r, q \in ReqIds :
        LET s == req[r]
            t == req[q]
        IN  (/\ s.op \in {"createOffer", "acceptOffer"} /\ SameCall(s, t)
             /\ s.outcome = "threw" /\ s.error = "LedgerCommandError"
             /\ t.outcome = "returned"
             /\ Truthy(LockRef(s)) /\ Truthy(LockRef(t)) /\ LockRef(s) < LockRef(t))
            => LockedSince(s.partyId, LockRef(s)) = 1

\* ----------------------------------------------------- split, then lock
\* The request s split a holding and its Lock of the split amount failed.
FailedAfterSplit(s) ==
    /\ Len(s.cmds) = 2 /\ s.error = "LedgerCommandError"
    /\ s.cmds[1].choice = "Split" /\ s.cmds[1].ok
    /\ s.cmds[2].choice = "Lock" /\ ~s.cmds[2].ok

\* The request t is the call of s made again, and its query saw the holding
\* s had split off.
Resumes(s, t) ==
    /\ FailedAfterSplit(s) /\ SameCall(s, t) /\ t.amount = s.amount
    /\ \E i \in DOMAIN t.usdcHoldings : t.usdcHoldings[i].cid = s.holdingCid

\* C28: split-then-lock can be resumed.  A Split that succeeds replaces the
\* holding by one of the requested amount and the remainder, the owner's
\* total staying what it was; a Lock that fails changes no holding; and the
\* same call made again selects a holding of exactly the amount by exact
\* match and sends the Lock of it first, without a Split.
C28_SplitThenLockResumable ==
    /\ [][\A r \in ReqIds :
            LET s == req[r]
                own == {h \in holdings : h.owner = s.partyId}
                ownAfter == {h \in holdings' : h.owner = s.partyId}
            IN  /\ (s.pc = "split" /\ req'[r].pc = "lock") =>
                       /\ SumAmounts(ownAfter) = SumAmounts(own)
                       /\ \E h \in own \ ownAfter, e, m \in ownAfter \ own :
                             /\ own \ ownAfter = {h} /\ ownAfter \ own = {e, m}
                             /\ e.cid = req'[r].holdingCid /\ e.amount = s.amount
                             /\ m.amount = h.amount - s.amount
                /\ (s.pc = "lock" /\ req'[r].error = "LedgerCommandError") =>
                       holdings' = holdings /\ locked' = locked]_vars
    /\ [](\A r, q \in ReqIds :
            LET s == req[r]
                t == req[q]
            IN  Resumes(s, t) =>
                   /\ t.pc \notin {"holdings_query", "split"}
                   /\ t.largeEnough = NULL
                   /\ t.holdingAmount = t.amount
                   /\ ExactMatch(t.usdcHoldings, t.amount) # 0
                   /\ t.holdingCid = t.usdcHoldings[ExactMatch(t.usdcHoldings, t.amount)].cid
                   /\ \A i \in DOMAIN t.cmds : t.cmds[i].choice # "Split"
                   /\ t.cmds # <<>> =>
                         t.cmds[1].choice = "Lock" /\ t.cmds[1].cid = t.holdingCid)

\* A lock that failed after its Split was made again, and the second call
\* locked the very holding the first had split off, with no Split of its own.
C28_Witness ==
    \E r, q \in ReqIds :
        /\ Resumes(req[r], req[q])
        /\ req[q].holdingCid = req[r].holdingCid
        /\ Len(req[q].cmds) = 1 /\ req[q].cmds[1].ok
        /\ req[q].outcome = "returned"

\* ------------------------------------------------ escrow after the ledger
\* The ledger exercise that has to have succeeded before the escrow request
\* of the given verb, and the state it leaves the loan in.
ExerciseBefore(verb) == IF verb = "withdraw" THEN "RepayHybrid" ELSE "ClaimDefaultHybrid"

SettledAs(verb) == IF verb = "withdraw" THEN "Repaid" ELSE "Defaulted"

\* The escrow requests of repay and claimDefault among the commands of s.
Settlements(s) ==
    {i \in DOMAIN s.cmds : s.op \in {"repayLoan", "defaultLoan"} /\ s.cmds[i].api = "escrow"}

\* C29: the escrow side follows the ledger side.  repay sends the withdraw
\* of the loan's collateral offer, and claimDefault the accept of it, only
\* as the command after their exercise on the loan, and only when it
\* succeeded and settled the loan; a repay or claimDefault that ends with an
\* error has sent no escrow request; and no collateral offer is withdrawn by
\* one of the requests and accepted by another.
C29_EscrowFollowsLedger ==
    /\ \A r \in ReqIds : \A i \in Settlements(req[r]) :
          LET s == req[r]
              c == s.cmds[i]
          IN  /\ c.choice = IF s.op = "repayLoan" THEN "withdraw" ELSE "accept"
              /\ c.cid = s.loan.ccCollateralReference
              /\ i = Len(s.cmds) /\ i > 1
              /\ s.cmds[i - 1].api = "ledger" /\ s.cmds[i - 1].ok
              /\ s.cmds[i - 1].choice = ExerciseBefore(c.choice)
              /\ s.cmds[i - 1].cid = s.target /\ s.loan.cid = s.target
              /\ loanState[s.target] = SettledAs(c.choice)
    /\ \A r \in ReqIds :
          (req[r].op \in {"repayLoan", "defaultLoan"} /\ req[r].outcome = "threw") =>
              Settlements(req[r]) = {}
    /\ \A r, q \in ReqIds : \A i \in Settlements(req[r]), j \in Settlements(req[q]) :
          (req[r].cmds[i].ok /\ req[q].cmds[j].ok /\ req[r].cmds[i].cid = req[q].cmds[j].cid)
              => req[r].cmds[i].choice = req[q].cmds[j].choice

\* A claimDefault whose exercise the ledger rejected, the loan having been
\* repaid meanwhile, ended without an escrow request, while the repay
\* withdrew the collateral offer after its exercise.
C29_Witness ==
    \E r, q \in ReqIds :
        /\ req[r].op = "repayLoan" /\ req[r].outcome = "returned"
        /\ \E i \in Settlements(req[r]) : req[r].cmds[i].ok
        /\ req[q].op = "defaultLoan" /\ req[q].target = req[r].target
        /\ req[q].error = "LedgerCommandError"
        /\ req[q].cmds # <<>> /\ Settlements(req[q]) = {}

\* ------------------------------------------------- the repayment holding
\* C30 (as claimed): the holding a repay exercise that succeeded was paid
\* with has exactly the requested repayment amount, found as it is or split
\* off; never a smaller or a larger one.
C30_RepaysWithExactAmount ==
    \A r \in ReqIds : \A i \in DOMAIN req[r].cmds :
        LET s == req[r]
            c == s.cmds[i]
        IN  (s.op = "repayLoan" /\ c.choice = "RepayHybrid" /\ c.ok) =>
               \A h \in archived :
                   h.cid = c.arg.repaymentHoldingCid => h.amount = s.amount

\* -------------------------------------------------- failure after the lock
\* The step of request r at which its create-command or accept exercise was
\* rejected.
OfferCommandFails(r) ==
    /\ req[r].pc \in {"create", "accept"}
    /\ Len(req'[r].cmds) = Len(req[r].cmds) + 1
    /\ ~req'[r].cmds[Len(req'[r].cmds)].ok

\* The lock of reference ref is outstanding: an open escrow offer or an
\* active locked holding.
Outstanding(ref) ==
    \/ \E o \in escrow : o.id = ref /\ o.status = "open"
    \/ \E l \in locked : l.cid = ref

\* An offer or a loan refers to the lock of reference ref.
Referred(ref) ==
    \/ \E o \in offers : ref \in {o.lockedCCCollateral, o.lockedUSDCPrincipal}
    \/ \E l \in loans : l.ccCollateralReference = ref

\* C31: a failure after the lock is surfaced and not compensated.  When the
\* create-command of createOffer or the accept exercise of acceptOffer is
\* rejected, the request ends with the ledger command error as its last
\* step, ledger and escrow are left as they were, the lock the request took
\* is outstanding and no offer or loan refers to it, and stays so while the
\* caller holds the error, also through a call made after it; and such a
\* request has sent nothing but its split, its lock and the rejected command.
C31_FailureAfterLockNotCompensated ==
    /\ [][\A r \in ReqIds :
            OfferCommandFails(r) =>
                LET s == req'[r]
                IN  /\ s.pc = "done" /\ s.outcome = "threw"
                    /\ s.error = "LedgerCommandError"
                    /\ ledgerVars' = ledgerVars /\ escrow' = escrow
                    /\ Truthy(LockRef(req[r])) =>
                          /\ LockRef(s) = LockRef(req[r])
                          /\ Outstanding(LockRef(req[r])) /\ Outstanding(LockRef(req[r]))'
                          /\ ~Referred(LockRef(req[r]))']_vars
    /\ [](\A r \in ReqIds :
            (req[r].op \in {"createOffer", "acceptOffer"} /\ req[r].outcome = "threw") =>
                \A i \in DOMAIN req[r].cmds :
                    /\ req[r].cmds[i].choice \in
                          {"Split", "Lock", "transfer-offers", "Create", "AcceptHybrid"}
                    /\ ~req[r].cmds[i].ok => i = Len(req[r].cmds))
    /\ [](\A r \in ReqIds :
            LET s == req[r]
            IN  (/\ s.error = "LedgerCommandError" /\ Truthy(LockRef(s))
                 /\ s.cmds[Len(s.cmds)].choice \in {"Create", "AcceptHybrid"}) =>
                    Outstanding(LockRef(s)) /\ ~Referred(LockRef(s)))

\* Both failures were reached with their lock left behind: a createOffer
\* whose escrow offer is open and unreferenced, and an acceptOffer whose
\* locked holding is active and unreferenced.
C31_Witness ==
    \E r, q \in ReqIds :
        /\ req[r].op = "createOffer" /\ req[r].offerType = "BorrowerBid"
        /\ req[q].op = "acceptOffer" /\ req[q].offerType = "BorrowerBid"
        /\ \A k \in {r, q} :
              /\ req[k].error = "LedgerCommandError"
              /\ Len(req[k].cmds) >= 2 /\ req[k].cmds[Len(req[k].cmds) - 1].ok
              /\ req[k].cmds[Len(req[k].cmds)].choice \in {"Create", "AcceptHybrid"}
              /\ Truthy(LockRef(req[k]))
              /\ Outstanding(LockRef(req[k])) /\ ~Referred(LockRef(req[k]))

\* ------------------------------------------------ the lock comes first
\* The commands of s that are a lock step: the escrow offer or the Lock.
LockSteps(s) == {i \in DOMAIN s.cmds : s.cmds[i].choice \in {"transfer-offers", "Lock"}}

\* The commands of s that create the offer or accept it.
OfferSteps(s) == {i \in DOMAIN s.cmds : s.cmds[i].choice \in {"Create", "AcceptHybrid"}}

\* C32: in createOffer and acceptOffer the lock precedes the ledger command.
\* The create-command or accept exercise is the command sent right after
\* the lock step, and only when that succeeded; a request whose lock step
\* failed, or which ended before it, has sent no create-command and no
\* accept exercise; and an offer comes to exist only by a request that has
\* taken its lock before.
C32_LockPrecedesOfferCommand ==
    /\ [](\A r \in ReqIds :
            LET s == req[r]
            IN  s.op \in {"createOffer", "acceptOffer"} =>
                   /\ \A i \in OfferSteps(s) :
                         /\ i = Len(s.cmds) /\ i - 1 \in LockSteps(s)
                         /\ s.cmds[i - 1].ok
                         /\ s.cmds[i].choice = IF s.op = "createOffer" THEN "Create"
                                               ELSE "AcceptHybrid"
                   /\ (\A i \in LockSteps(s) : ~s.cmds[i].ok) => OfferSteps(s) = {}
                   /\ s.pc \in {"create", "accept"} =>
                         \E i \in LockSteps(s) : i = Len(s.cmds) /\ s.cmds[i].ok
                   /\ s.error \in {"NoHoldings", "InsufficientBalance", "NoAmulets",
                                   "WalletApiError", "QueryError", "SplitNoContractId",
                                   "LockNoContractId"} => OfferSteps(s) = {})
    /\ [][\A o \in offers' \ offers :
            \E r \in ReqIds :
                /\ req[r].pc = "create" /\ req'[r].outcome = "returned"
                /\ req'[r].result = o.cid /\ o.initiator = req[r].partyId
                /\ \E i \in LockSteps(req[r]) : req[r].cmds[i].ok
                /\ IF o.offerType = "BorrowerBid"
                   THEN \E e \in escrow : e.sender = o.initiator /\ e.amount = o.collateralAmount
                   ELSE \E l \in locked : l.cid = o.lockedUSDCPrincipal
                                             /\ l.amount = o.loanAmount]_vars

\* A createOffer ended at its lock step with an insufficient balance and
\* sent no create-command, while another created its offer after its lock.
C32_Witness ==
    \E r, q \in ReqIds :
        /\ req[r].op = "createOffer" /\ req[r].error = "InsufficientBalance"
        /\ OfferSteps(req[r]) = {}
        /\ req[q].op = "createOffer" /\ req[q].outcome = "returned"
        /\ OfferSteps(req[q]) = {Len(req[q].cmds)}
        /\ \E o \in offers : o.cid = req[q].result

\* ------------------------------------------------------- loan not found
\* The loan id of request s names no active loan its party is a stakeholder of.
NotVisible(s) ==
    ~\E l \in loans : l.cid = s.target /\ s.partyId \in {l.borrower, l.lender}

\* C33: repay and claimDefault on a loan id that is not among the active
\* loans visible to the caller end with the not-found error at the answer of
\* the loans query, with nothing sent and nothing changed; a request that
\* ended with not-found has sent no command and no escrow request, and one
\* that went on had found the loan it names.
C33_UnknownLoanNotFound ==
    /\ [][\A r \in ReqIds :
            (req[r].pc = "loans_query" /\ NotVisible(req[r]) /\ req'[r] # req[r]) =>
                /\ req'[r].pc = "done" /\ req'[r].outcome = "threw"
                /\ req'[r].error \in {"NotFound", "QueryError"}
                /\ req'[r].cmds = <<>>
                /\ ledgerVars' = ledgerVars /\ escrow' = escrow]_vars
    /\ [](\A r \in ReqIds :
            LET s == req[r]
            IN  s.op \in {"repayLoan", "defaultLoan"} =>
                   /\ s.error = "NotFound" => s.cmds = <<>> /\ s.usdcHoldings = <<>>
                   /\ (s.cmds # <<>> \/ s.pc \notin {"loans_query", "done"}) =>
                          s.loan.cid = s.target /\ s.target \in DOMAIN loanState)

\* A loan was repaid and the default then claimed on it ended with not-found.
C33_Witness ==
    \E r, q \in ReqIds :
        /\ req[r].op = "repayLoan" /\ req[r].outcome = "returned"
        /\ req[q].op = "defaultLoan" /\ req[q].target = req[r].target
        /\ loanState[req[q].target] = "Repaid"
        /\ req[q].error = "NotFound" /\ req[q].cmds = <<>>

\* ------------------------------------------------- the locked holding's id
\* The locked holdings the ledger ever held.
EverLocked == locked \cup {a \in archived : "releaseTo" \in DOMAIN a}

\* C34: what lockCustomAsset returns.  Of the answer to its Lock it takes
\* the exercise result when that is a non-empty string, else the first
\* created contract, and has no id when there is neither; a lock that
\* returned holds a non-empty id, that of the locked holding of the
\* requested amount its Lock created, and never the id of an unlocked
\* holding; without an id it fails, the lock having been taken.
C34_ReturnsLockedHoldingId ==
    /\ [](\A resp \in LockResponses(nextId) :
            LockedCid(resp) =
                IF resp.exerciseResult.kind = "string" /\ resp.exerciseResult.v[1] # NULL
                THEN resp.exerciseResult.v[1]
                ELSE IF resp.created # <<>> THEN resp.created[1] ELSE UNDEFINED)
    /\ [](\A r \in ReqIds :
            LET s == req[r]
            IN  (s.op = "lockUSDC" /\ s.outcome = "returned") =>
                   /\ Truthy(s.result)
                   /\ \E l \in EverLocked :
                         l.cid = s.result /\ l.owner = s.partyId /\ l.amount = s.amount
                   /\ \A h \in holdings \cup (archived \ EverLocked) : h.cid # s.result)
    /\ [][\A r \in ReqIds :
            (req[r].op = "lockUSDC" /\ req[r].pc = "lock" /\ locked' # locked) =>
                \E l \in locked' \ locked :
                    /\ locked' = locked \cup {l}
                    /\ \/ req'[r].outcome = "returned" /\ req'[r].result = l.cid
                       \/ req'[r].error = "LockNoContractId"]_vars

\* A lock returned the id of the locked holding its Lock created from the
\* holding it had split off.
C34_Witness ==
    \E r \in ReqIds :
        /\ req[r].op = "lockUSDC" /\ req[r].outcome = "returned"
        /\ Len(req[r].cmds) = 2 /\ req[r].cmds[2].cid = req[r].holdingCid
        /\ \E l \in locked : l.cid = req[r].result /\ l.amount = req[r].amount

\* ------------------------------------------------- tokens of escrow calls
\* The step appends an escrow request to the commands of the call in slot r.
SendsEscrow(r) ==
    /\ Len(req'[r].cmds) = Len(req[r].cmds) + 1
    /\ req'[r].cmds[Len(req'[r].cmds)].api = "escrow"

C36_CollateralOfferStaysOutstanding ==
    \A l \in loans :
        loanState[l.cid] = "Active" =>
            \A o \in escrow : o.id = l.ccCollateralReference => o.status = "open"

\* ------------------------------------------------ terms of acceptOffer
\* The offer contracts the ledger holds or held.
LedgerOffers == offers \cup {a \in archived : "offerType" \in DOMAIN a}

\* The request took its lock: the Lock was exercised or the escrow offer made.
TookLock(s) ==
    \E i \in DOMAIN s.cmds : s.cmds[i].choice \in {"Lock", "transfer-offers"} /\ s.cmds[i].ok

\* C37: the terms acceptOffer acts on are those of the offer contract of the
\* ledger under offerId: the amount the acceptor locks is that offer's
\* loanAmount (BorrowerBid) or collateralAmount (LenderAsk), and the initiator
\* named as authorizer and as the party the lock releases to is that offer's
\* initiator.
C37_AcceptsLedgerTerms ==
    \A r \in ReqIds : \A o \in LedgerOffers :
        (req[r].op = "acceptOffer" /\ req[r].target = o.cid /\ TookLock(req[r])) =>
            /\ req[r].amount = IF o.offerType = "BorrowerBid" THEN o.loanAmount
                               ELSE o.collateralAmount
            /\ req[r].initiator = o.initiator

\* ---------------------------------------------------- result of lockAmulet
\* C38: lockAmulet fails or returns the non-empty id of an escrow offer that
\* exists; it never returns with an absent id.
C38_ReturnsEscrowOfferId ==
    \A r \in ReqIds :
        (req[r].op = "lockAmulet" /\ req[r].outcome = "returned") =>
            /\ Truthy(req[r].result)
            /\ \E o \in escrow : o.id = req[r].result /\ o.kind = "transfer-offers"

\* ---------------------------------------------------- sender of the offer
\* C39: the escrow offer lockAmulet creates for partyId is an offer of the
\* wallet of partyId, whether or not a user token is forwarded.
C39_OfferFromPartyWallet ==
    [][\A r \in ReqIds :
          (req[r].op = "lockAmulet" /\ SendsEscrow(r) /\ escrow' # escrow) =>
              \A o \in escrow' \ escrow : o.sender = req[r].partyId]_vars

\* ------------------------------------------------ conservation of amounts
\* The unlocked and the locked USDC of a party.
Available(p) == SumAmounts(OwnHoldings(p))

LockedOf(p) == SumAmounts({l \in locked : l.owner = p})

TotalUSDC == SumAmounts(holdings) + SumAmounts(locked)

\* The call in slot r returns in this step, from the step at pc.
ReturnsFrom(r, pc) ==
    req[r].pc = pc /\ req'[r].pc = "done" /\ req'[r].outcome = "returned"

\* C40: custom-asset amounts are conserved.  No step of interleaved lockUSDC,
\* transferUSDC and repayLoan calls, successful or failed, changes the sum of
\* unlocked and locked USDC; the step in which a transferUSDC of X succeeds
\* lowers the sender's available amount by X and raises the recipient's by
\* X; the step in which a lockUSDC of X succeeds moves X from the party's
\* available to its locked amount.
C40_AmountsConserved ==
    [][/\ TotalUSDC' = TotalUSDC
       /\ \A r \in ReqIds :
             LET s == req[r]
             IN  /\ (s.op = "transferUSDC" /\ ReturnsFrom(r, "transfer")) =>
                       /\ Available(s.partyId)' = Available(s.partyId) - s.amount
                       /\ Available(s.recipient)' = Available(s.recipient) + s.amount
                 /\ (s.op = "lockUSDC" /\ ReturnsFrom(r, "lock")) =>
                       /\ Available(s.partyId)' = Available(s.partyId) - s.amount
                       /\ LockedOf(s.partyId)' = LockedOf(s.partyId) + s.amount]_vars

\* alice's transferUSDC of 1 and her lockUSDC of 1 both returned, one of the
\* two after a split of her holding of 3.
C40_Witness ==
    \E r, q \in ReqIds :
        /\ req[r].op = "transferUSDC" /\ req[r].outcome = "returned"
        /\ req[r].partyId = "alice" /\ req[r].amount = 1
        /\ req[q].op = "lockUSDC" /\ req[q].outcome = "returned"
        /\ req[q].partyId = "alice" /\ req[q].amount = 1
        /\ \E l \in locked : l.cid = req[q].result /\ l.amount = 1
        /\ \E a \in archived : a.cid = 8

=============================================================================
